---- MODULE Spec2Model ----
(***************************************************************************)
(* Model of the sase-github plugin: reference resolution                   *)
(* (workspace_plugin.resolve_gh_ref), workspace allocation and the run     *)
(* lifecycle (runner_provider), and PR submission                          *)
(* (workspace_plugin.ws_submit).                                           *)
(*                                                                         *)
(* Strings are sequences of one-character strings, so that splitting,      *)
(* stripping, path normalisation and decimal formatting are computed and   *)
(* not assumed.                                                            *)
(***************************************************************************)
EXTENDS Integers, Sequences, FiniteSets, TLC

VARIABLES
    gp,       \* project records: project file -> recorded WORKSPACE_DIR ("" = unset)
    dirs,     \* directories that exist on disk (normalised paths)
    cs,       \* the change records, in find_all_changespecs() order
    rsN,      \* number of resolutions performed so far
    rsRef,    \* the reference of the last resolution
    rsEnv,    \* what the collaborators answered during that resolution
    rsOut,    \* outcome of the last resolution
    rsCalls,  \* collaborator calls made by the last resolution, in order
    rsRepo,   \* project file the last resolution addressed as a repository path
    rsPrev,   \* project records and directories before the last resolution
    reg,      \* the workspace registry: the set of claims held
    rPc,      \* per run: where the run is in its lifecycle
    rArgs,    \* per run: the arguments and environment of pre_agent
    rRes,     \* per run: what resolve_ref returned
    rCtx,     \* per run: the RunnerContext
    rClaim,   \* per run: what claim_workspace was called with and returned
    rLog,     \* per run: collaborator calls, in order
    rGit,     \* per run: what git answered during post_agent
    rOut,     \* per run: the result of post_agent (or the error raised)
    sPc,      \* per submission: where ws_submit is
    sArgs,    \* per submission: the arguments of ws_submit
    sNum,     \* per submission: the slot selected
    sClaim,   \* per submission: the claim made, once claim_workspace accepted
    sLog,     \* per submission: registry and tool calls, in order
    sOut,     \* per submission: the value ws_submit returns (or the error)
    mPc,      \* vcs_mail: where it is
    mCalls,   \* vcs_mail: the external calls made, in order
    mAns,     \* vcs_mail: what each call answered, in order
    mRes,     \* vcs_mail: the value returned
    qRes,     \* the last PR query: the function, the tool's answer, the result
    cPc,      \* per concurrent resolution: where resolve_gh_ref is
    cRef,     \* per concurrent resolution: the reference
    cOut,     \* per concurrent resolution: the outcome
    cLoc,     \* per concurrent resolution: the change record it found
    kvRun,    \* the last script run: the script, how it ended, the lines printed
    kvSeen,   \* per script: the key sequences its returned runs have printed
    gPc,      \* per gh_setup process: where main is
    gArgs,    \* per gh_setup process: the arguments and environment
    gRes,     \* per gh_setup process: what resolve_ref returned
    gSel      \* per gh_setup process: the slot and directory selected

storeVars == <<gp, dirs, cs>>
resolveVars == <<rsN, rsRef, rsEnv, rsOut, rsCalls, rsRepo, rsPrev>>
runLocal == <<rPc, rArgs, rRes, rCtx, rClaim, rLog, rGit, rOut>>
runVars == <<reg, runLocal>>
submitVars == <<sPc, sArgs, sNum, sClaim, sLog, sOut>>
pluginVars == <<mPc, mCalls, mAns, mRes, qRes>>
concVars == <<cPc, cRef, cOut, cLoc>>
ghVars == <<gPc, gArgs, gRes, gSel>>
scriptVars == <<kvRun, kvSeen, ghVars>>

(***************************************************************************)
(* Bounds                                                                  *)
(***************************************************************************)
MaxRefLen == 4
MaxResolves == 2
MaxNameLen == 2
NumProcs == 2

(***************************************************************************)
(* Strings                                                                 *)
(***************************************************************************)
SEP == "/"
Chars == {"a", "b", "/", "."}
EMPTY == <<>>

StrOfLen(n) == [1..n -> Chars]
AllRefs == UNION {StrOfLen(n) : n \in 1..MaxRefLen}

Contains(s, ch) == \E i \in 1..Len(s) : s[i] = ch

RECURSIVE LStrip(_)
LStrip(s) == IF s # EMPTY /\ Head(s) = SEP THEN LStrip(Tail(s)) ELSE s

RECURSIVE RStrip(_)
RStrip(s) ==
    IF s # EMPTY /\ s[Len(s)] = SEP THEN RStrip(SubSeq(s, 1, Len(s) - 1)) ELSE s

\* str.strip("/")
Strip(s) == RStrip(LStrip(s))

\* str.split("/"): always at least one part; empty parts are kept
RECURSIVE SplitAcc(_, _, _)
SplitAcc(s, cur, acc) ==
    IF s = EMPTY THEN Append(acc, cur)
    ELSE IF Head(s) = SEP THEN SplitAcc(Tail(s), EMPTY, Append(acc, cur))
    ELSE SplitAcc(Tail(s), Append(cur, Head(s)), acc)

Split(s) == SplitAcc(s, EMPTY, <<>>)

\* "/".join(parts)
RECURSIVE Join(_)
Join(parts) ==
    IF parts = <<>> THEN EMPTY
    ELSE IF Len(parts) = 1 THEN parts[1]
    ELSE parts[1] \o <<SEP>> \o Join(Tail(parts))

(***************************************************************************)
(* Paths                                                                   *)
(***************************************************************************)
DOT == <<".">>
DOTDOT == <<".", ".">>

\* pathlib: base / comp for a component without a separator; "." is dropped
PathJoin(base, comp) ==
    IF comp = DOT \/ comp = EMPTY THEN base ELSE base \o <<SEP>> \o comp

\* the number of leading slashes os.path.normpath keeps
InitialSlashes(p) ==
    IF p = EMPTY \/ p[1] # SEP THEN 0
    ELSE IF Len(p) >= 2 /\ p[2] = SEP /\ ~(Len(p) >= 3 /\ p[3] = SEP) THEN 2
    ELSE 1

RECURSIVE NormComps(_, _, _)
NormComps(comps, acc, slashes) ==
    IF comps = <<>> THEN acc
    ELSE LET c == Head(comps) rest == Tail(comps) IN
         IF c = EMPTY \/ c = DOT THEN NormComps(rest, acc, slashes)
         ELSE IF c # DOTDOT
                 \/ (slashes = 0 /\ acc = <<>>)
                 \/ (acc # <<>> /\ acc[Len(acc)] = DOTDOT)
              THEN NormComps(rest, Append(acc, c), slashes)
         ELSE IF acc # <<>>
              THEN NormComps(rest, SubSeq(acc, 1, Len(acc) - 1), slashes)
         ELSE NormComps(rest, acc, slashes)

\* os.path.normpath (POSIX)
NormPath(p) ==
    IF p = EMPTY THEN DOT
    ELSE LET n == InitialSlashes(p)
             body == Join(NormComps(Split(p), <<>>, n))
             out == [i \in 1..n |-> SEP] \o body
         IN IF out = EMPTY THEN DOT ELSE out

\* the directories an absolute path walks through, in order, as the OS
\* resolves it (".." steps to the parent; no symbolic links)
RECURSIVE WalkAcc(_, _, _)
WalkAcc(comps, cur, acc) ==
    IF comps = <<>> THEN acc
    ELSE LET c == Head(comps)
             nxt == IF c = EMPTY \/ c = DOT THEN cur
                    ELSE IF c = DOTDOT
                         THEN (IF cur = <<>> THEN cur
                               ELSE SubSeq(cur, 1, Len(cur) - 1))
                    ELSE Append(cur, c)
         IN WalkAcc(Tail(comps), nxt, Append(acc, <<SEP>> \o Join(nxt)))

Walk(p) == WalkAcc(Split(p), <<>>, <<>>)

ROOT == <<SEP>>

\* all ancestors of an absolute path, itself included
Ancestors(p) == LET w == Walk(p) IN {w[i] : i \in 1..Len(w)} \ {ROOT}

\* os.path.dirname
RECURSIVE DirName(_)
DirName(p) ==
    IF p = EMPTY THEN EMPTY
    ELSE IF p[Len(p)] = SEP
         THEN (IF RStrip(p) = EMPTY THEN p ELSE RStrip(p))
    ELSE DirName(SubSeq(p, 1, Len(p) - 1))

HOME == <<"/", "h">>
S_projects == <<"p", "r", "o", "j", "e", "c", "t", "s">>
S_github == <<"g", "i", "t", "h", "u", "b">>
S_sase == <<".", "s", "a", "s", "e">>
S_gp == <<".", "g", "p">>
S_origin == <<"o", "r", "i", "g", "i", "n">>
S_main == <<"m", "a", "i", "n">>

\* Path.home() / ".sase" / "projects"
ProjectsBase == PathJoin(PathJoin(HOME, S_sase), S_projects)

\* str(Path.home() / "projects" / "github" / user / project) + "/"
PrimaryWorkspaceDir(user, project) ==
    PathJoin(PathJoin(PathJoin(PathJoin(HOME, S_projects), S_github), user), project)
        \o <<SEP>>

\* str(projects_base / project / f"{project}.gp")
ProjectFile(project) == PathJoin(PathJoin(ProjectsBase, project), project \o S_gp)

(***************************************************************************)
(* Collaborators: project record store, file system, default branch        *)
(***************************************************************************)
\* parse_workspace_dir: the recorded directory, "" when the record or key is missing
ParseWorkspaceDir(g, f) == IF f \in DOMAIN g THEN g[f] ELSE EMPTY

\* set_workspace_dir: writes the key, creating the record when missing
SetWorkspaceDir(g, f, d) ==
    [x \in DOMAIN g \cup {f} |-> IF x = f THEN d ELSE g[x]]

\* os.path.isdir: every directory on the way exists
IsDir(d, p) == Ancestors(p) \subseteq d

\* os.makedirs(p, exist_ok=True)
MakeDirs(d, p) == d \cup Ancestors(p)

\* the directory an absolute path names once the OS has resolved it
ResolvedDir(p) == LET w == Walk(p) IN w[Len(w)]

\* x lies below the directory r
IsUnder(x, r) ==
    /\ Len(x) > Len(r)
    /\ SubSeq(x, 1, Len(r)) = r
    /\ r = ROOT \/ x[Len(r) + 1] = SEP

\* the directory holds nothing
IsEmptyDir(d, p) == ~\E x \in d : IsUnder(x, ResolvedDir(p))

S_dotGit == <<".", "g", "i", "t">>

\* what a finished git clone leaves: the directory and its .git inside
CloneInto(d, target) == MakeDirs(d, target \o <<SEP>> \o S_dotGit)

\* git clone refuses a destination that exists and is not empty
\* variant: the clone is taken to have worked whatever git answered
CloneAlwaysSucceeds(d, target, toolOk) == TRUE

CloneSucceeds(d, target, toolOk) ==
    toolOk /\ (~IsDir(d, target) \/ IsEmptyDir(d, target))

\* the refs get_default_branch may answer
DefaultBranches == {S_origin \o <<SEP>> \o S_main, S_main}

(***************************************************************************)
(* resolve_gh_ref                                                          *)
(***************************************************************************)
Call(op, arg) == [op |-> op, arg |-> arg]

Resolved(pf, pn, pwd, ct) ==
    [kind |-> "ok", project_file |-> pf, project_name |-> pn,
     primary_workspace_dir |-> pwd, checkout_target |-> ct]

\* a raised error: its kind and the two values its message names
Failure(kind, a, b) == [kind |-> kind, a |-> a, b |-> b]
NoResult == [kind |-> "none"]
Passed == [kind |-> "pass"]

\* repo: the project file a repository-path resolution addressed ("" otherwise)
Effect(out, repo, g, d, calls) ==
    [out |-> out, repo |-> repo, gp |-> g, dirs |-> d, calls |-> calls]

\* characters are the code points 0 to 255, the ones a string can hold here;
\* the whitespace among them that has no escape: code points 11, 28, 29, 30,
\* 31, 133 and 160
Ch_VT == ""
Ch_FS == ""
Ch_GS == ""
Ch_RS == ""
Ch_US == ""
Ch_NEL == ""
Ch_NBSP == " "

\* str.strip() of tool output: the characters str.isspace() holds for
IsSpace(ch) ==
    ch \in {"\t", "\n", Ch_VT, "\f", "\r", Ch_FS, Ch_GS, Ch_RS, Ch_US, " ",
            Ch_NEL, Ch_NBSP}

\* the value an option holds
TextOf(v) == CHOOSE t \in v : TRUE

RECURSIVE LStripWs(_)
LStripWs(s) == IF s # EMPTY /\ IsSpace(Head(s)) THEN LStripWs(Tail(s)) ELSE s

RECURSIVE RStripWs(_)
RStripWs(s) ==
    IF s # EMPTY /\ IsSpace(s[Len(s)]) THEN RStripWs(SubSeq(s, 1, Len(s) - 1)) ELSE s

StripWs(s) == RStripWs(LStripWs(s))

\* what the collaborators answer during one resolution; clone is how git
\* clone ends: "ok", "fail" (with error output) or "fail_quiet" (without)
ResolveEnvs ==
    [clone : {"ok", "fail", "fail_quiet"}, branch : DefaultBranches,
     ghUser : {EMPTY, <<"a">>}]

NoEnv == [clone |-> "none"]

\* what git clone writes to stderr
CloneStderr(e) == IF e.clone = "fail_quiet" THEN EMPTY ELSE <<"e", "\n">>

\* the tool text the RuntimeError of _clone_gh_repo carries
CloneErrorText(e) == StripWs(CloneStderr(e))

\* variant: the reference is split without stripping separators first
RepoPathPartsNoStrip(ref) == Split(ref)

\* the parts a repository-path reference is split into
RepoPathParts(ref) == Split(Strip(ref))

\* the reference is accepted as user/project
ValidRepoPath(ref) == Len(RepoPathParts(ref)) = 2

\* variant: the recorded directory is never compared
WorkspaceDirConflictUnchecked(existing, derived) == FALSE

\* the recorded directory contradicts the derived one
WorkspaceDirConflict(existing, derived) ==
    existing # EMPTY /\ NormPath(existing) # NormPath(derived)

\* the clone URL form chosen by _clone_gh_repo
CloneUrlKind(ghUser, user) ==
    IF ghUser # EMPTY /\ ghUser = user THEN "ssh" ELSE "https"

S_sshPrefix ==
    <<"g", "i", "t", "@", "g", "i", "t", "h", "u", "b", ".", "c", "o", "m", ":">>
S_httpsPrefix ==
    <<"h", "t", "t", "p", "s", ":", "/", "/", "g", "i", "t", "h", "u", "b", ".",
      "c", "o", "m", "/">>

\* the URL _clone_gh_repo clones from
CloneUrl(ghUser, user, project) ==
    (IF CloneUrlKind(ghUser, user) = "ssh" THEN S_sshPrefix ELSE S_httpsPrefix)
        \o user \o <<SEP>> \o project \o S_dotGit

\* Mode 1 after the conflict check: clone when absent, persist, query branch
RepoPathFinish(user, project, primary, pf, g, d, e, calls) ==
    LET target == RStrip(primary)
        present == IsDir(d, target)
        d1 == IF present THEN d ELSE MakeDirs(d, DirName(target))
        cloned == ~present /\ CloneSucceeds(d1, target, e.clone = "ok")
        c1 == Append(calls, Call("isdir", target))
        c2 == IF present THEN c1
              ELSE Append(c1, Call("clone", CloneUrlKind(e.ghUser, user)))
    IN IF ~present /\ ~cloned
       THEN Effect(Failure("clone_failed", CloneUrl(e.ghUser, user, project),
                           CloneErrorText(e)), pf, g, d1, c2)
       ELSE Effect(Resolved(pf, project, primary, e.branch), pf,
                   SetWorkspaceDir(g, pf, primary),
                   IF cloned THEN CloneInto(d1, target) ELSE d1,
                   c2 \o <<Call("set_workspace_dir", primary),
                           Call("get_default_branch", primary)>>)

\* variant: the conflict is reported only after cloning and persisting
ResolveRepoPathLateCheck(ref, g, d, e) ==
    LET parts == RepoPathParts(ref) IN
    IF ~ValidRepoPath(ref)
    THEN Effect(Failure("invalid_repo_path", ref, EMPTY), EMPTY, g, d, <<>>)
    ELSE LET primary == PrimaryWorkspaceDir(parts[1], parts[2])
             pf == ProjectFile(parts[2])
             existing == ParseWorkspaceDir(g, pf)
             fin == RepoPathFinish(parts[1], parts[2], primary, pf, g, d, e,
                                   <<Call("parse_workspace_dir", pf)>>)
         IN IF WorkspaceDirConflict(existing, primary)
            THEN Effect(Failure("conflict", existing, primary), pf,
                        fin.gp, fin.dirs, fin.calls)
            ELSE fin

\* Mode 1: repository path
ResolveRepoPath(ref, g, d, e) ==
    LET parts == RepoPathParts(ref) IN
    IF ~ValidRepoPath(ref)
    THEN Effect(Failure("invalid_repo_path", ref, EMPTY), EMPTY, g, d, <<>>)
    ELSE LET user == parts[1]
             project == parts[2]
             primary == PrimaryWorkspaceDir(user, project)
             pf == ProjectFile(project)
             existing == ParseWorkspaceDir(g, pf)
             calls == <<Call("parse_workspace_dir", pf)>>
         IN IF WorkspaceDirConflict(existing, primary)
            THEN Effect(Failure("conflict", existing, primary), pf, g, d, calls)
            ELSE RepoPathFinish(user, project, primary, pf, g, d, e, calls)

\* variant: records whose project file has no directory are passed over
RECURSIVE ResolveChangeSpecSkipUnset(_, _, _, _, _)
ResolveChangeSpecSkipUnset(ref, list, g, d, calls) ==
    IF list = <<>>
    THEN Effect(Failure("cannot_resolve", ref, EMPTY), EMPTY, g, d, calls)
    ELSE LET c == Head(list)
             wd == ParseWorkspaceDir(g, c.file_path)
         IN IF c.name # ref \/ wd = EMPTY
            THEN ResolveChangeSpecSkipUnset(ref, Tail(list), g, d, calls)
            ELSE Effect(Resolved(c.file_path, c.project_basename, wd,
                                 S_origin \o <<SEP>> \o ref),
                        EMPTY, g, d,
                        Append(calls, Call("parse_workspace_dir", c.file_path)))

\* Mode 3: change record name
RECURSIVE ResolveChangeSpec(_, _, _, _, _)
ResolveChangeSpec(ref, list, g, d, calls) ==
    IF list = <<>>
    THEN Effect(Failure("cannot_resolve", ref, EMPTY), EMPTY, g, d, calls)
    ELSE LET c == Head(list) IN
         IF c.name # ref THEN ResolveChangeSpec(ref, Tail(list), g, d, calls)
         ELSE LET wd == ParseWorkspaceDir(g, c.file_path)
                  c1 == Append(calls, Call("parse_workspace_dir", c.file_path))
              IN IF wd = EMPTY
                 THEN Effect(Failure("workspace_dir_not_set", ref, c.file_path),
                             EMPTY, g, d, c1)
                 ELSE Effect(Resolved(c.file_path, c.project_basename, wd,
                                      S_origin \o <<SEP>> \o ref),
                             EMPTY, g, d, c1)

\* variant: a project record without a directory ends the resolution
ResolveShorthandStrict(ref, g, d, list, e) ==
    LET pdir == PathJoin(ProjectsBase, ref)
        pfile == PathJoin(pdir, ref \o S_gp)
        wd == ParseWorkspaceDir(g, pfile)
    IN IF pfile \in DOMAIN g /\ wd # EMPTY
       THEN Effect(Resolved(pfile, ref, wd, e.branch), EMPTY, g, d,
                   <<Call("parse_workspace_dir", pfile),
                     Call("get_default_branch", wd)>>)
       ELSE IF pfile \in DOMAIN g
       THEN Effect(Failure("workspace_dir_not_set", ref, pfile), EMPTY, g, d,
                   <<Call("parse_workspace_dir", pfile)>>)
       ELSE ResolveChangeSpec(ref, list, g, d, <<>>)

\* variant: a change record of that name is preferred to the project record
ResolveShorthandAfterChange(ref, g, d, list, e) ==
    LET pdir == PathJoin(ProjectsBase, ref)
        pfile == PathJoin(pdir, ref \o S_gp)
        wd == ParseWorkspaceDir(g, pfile)
    IN IF \E i \in 1..Len(list) : list[i].name = ref
       THEN ResolveChangeSpec(ref, list, g, d, <<>>)
       ELSE IF pfile \in DOMAIN g /\ wd # EMPTY
       THEN Effect(Resolved(pfile, ref, wd, e.branch), EMPTY, g, d,
                   <<Call("parse_workspace_dir", pfile),
                     Call("get_default_branch", wd)>>)
       ELSE ResolveChangeSpec(ref, list, g, d, <<>>)

\* Mode 2: project shorthand, falling through to mode 3
ResolveShorthand(ref, g, d, list, e) ==
    LET pdir == PathJoin(ProjectsBase, ref)
        pfile == PathJoin(pdir, ref \o S_gp)
        wd == ParseWorkspaceDir(g, pfile)
    IN IF pfile \in DOMAIN g /\ wd # EMPTY
       THEN Effect(Resolved(pfile, ref, wd, e.branch), EMPTY, g, d,
                   <<Call("parse_workspace_dir", pfile),
                     Call("get_default_branch", wd)>>)
       ELSE ResolveChangeSpec(ref, list, g, d,
                IF pfile \in DOMAIN g
                THEN <<Call("parse_workspace_dir", pfile)>> ELSE <<>>)

ResolveGhRef(ref, g, d, list, e) ==
    IF Contains(ref, SEP) THEN ResolveRepoPath(ref, g, d, e)
    ELSE ResolveShorthand(ref, g, d, list, e)

(***************************************************************************)
(* Resolutions against the stores                                          *)
(***************************************************************************)
NoRecords == [x \in {} |-> EMPTY]
ProjA == <<"a">>
ProjB == <<"b">>
OtherDir == <<"/", "o", "/">>

InitRecords ==
    { NoRecords,
      [x \in {ProjectFile(ProjB)} |-> EMPTY],
      [x \in {ProjectFile(ProjB)} |-> RStrip(PrimaryWorkspaceDir(ProjA, ProjB))],
      [x \in {ProjectFile(ProjB)} |-> OtherDir] }

InitDirs ==
    { {},
      Ancestors(PrimaryWorkspaceDir(ProjA, ProjB))
          \cup Ancestors(PrimaryWorkspaceDir(ProjB, ProjA)) }

None == <<"N", "o", "n", "e">>

ChildSpec(name, project, parent, status) ==
    [name |-> name, file_path |-> ProjectFile(project), project_basename |-> project,
     parent |-> parent, status |-> status]

ChangeSpec(name, project) == ChildSpec(name, project, None, "Drafted")

InitChangeLists ==
    { <<>>, <<ChangeSpec(ProjB, ProjA), ChangeSpec(ProjB, ProjB)>> }

NoOutcome == Failure("none", EMPTY, EMPTY)

ResolveIdle ==
    /\ rsN = 0
    /\ rsRef = EMPTY
    /\ rsEnv = NoEnv
    /\ rsOut = NoOutcome
    /\ rsCalls = <<>>
    /\ rsRepo = EMPTY
    /\ rsPrev = [gp |-> gp, dirs |-> dirs]

\* one resolution of any reference against any of the initial stores
InitResolveOnce ==
    /\ gp \in InitRecords
    /\ dirs \in InitDirs
    /\ cs \in InitChangeLists
    /\ ResolveIdle

ResolveOnce(ref, e) ==
    /\ rsN = 0
    /\ LET r == ResolveGhRef(ref, gp, dirs, cs, e) IN
        /\ gp' = r.gp
        /\ dirs' = r.dirs
        /\ rsOut' = r.out
        /\ rsCalls' = r.calls
        /\ rsRepo' = r.repo
    /\ rsN' = 1
    /\ rsRef' = ref
    /\ rsEnv' = e
    /\ rsPrev' = [gp |-> gp, dirs |-> dirs]
    /\ UNCHANGED <<cs, runVars, submitVars, pluginVars, concVars, scriptVars>>

NextResolveOnce == \E ref \in AllRefs, e \in ResolveEnvs : ResolveOnce(ref, e)

\* a sequence of resolutions, starting with no project records
InitResolveSeq ==
    /\ gp = NoRecords
    /\ dirs \in InitDirs \ {{}}
    /\ cs = <<>>
    /\ ResolveIdle

SeqEnvs ==
    {e \in ResolveEnvs :
        e.branch = S_main /\ e.ghUser = ProjA /\ e.clone \in {"ok", "fail"}}

ResolveNext(ref, e) ==
    /\ rsN < MaxResolves
    /\ LET r == ResolveGhRef(ref, gp, dirs, cs, e) IN
        /\ gp' = r.gp
        /\ dirs' = r.dirs
        /\ rsOut' = r.out
        /\ rsCalls' = r.calls
        /\ rsRepo' = r.repo
    /\ rsN' = rsN + 1
    /\ rsPrev' = [gp |-> gp, dirs |-> dirs]
    /\ UNCHANGED <<cs, rsRef, rsEnv, runVars, submitVars, pluginVars, concVars, scriptVars>>

NextResolveSeq == \E ref \in AllRefs, e \in SeqEnvs : ResolveNext(ref, e)

\* resolutions of references without a separator (shorthand and change name)
NameRefs ==
    {r \in UNION {StrOfLen(n) : n \in 0..MaxNameLen} : ~Contains(r, SEP)}

\* what a project record may hold: nothing, a directory as mode 1 writes it,
\* or the same directory written without the trailing separator
RecordValues(project) ==
    {EMPTY, PrimaryWorkspaceDir(ProjA, project),
     RStrip(PrimaryWorkspaceDir(ProjA, project))}

NameRecords ==
    {NoRecords}
    \cup {[x \in {ProjectFile(ProjB)} |-> v] : v \in RecordValues(ProjB)}
    \cup {[x \in {ProjectFile(ProjA), ProjectFile(ProjB)} |->
              IF x = ProjectFile(ProjA) THEN va ELSE vb] :
           va \in RecordValues(ProjA), vb \in RecordValues(ProjB)}

NameChangeLists ==
    { <<>>,
      <<ChangeSpec(ProjB, ProjA), ChangeSpec(ProjB, ProjB)>>,
      <<ChangeSpec(ProjB, ProjB), ChangeSpec(ProjB, ProjA)>>,
      <<ChangeSpec(ProjA, ProjB)>>,
      <<ChangeSpec(<<"a", "b">>, ProjA), ChangeSpec(<<"a", "b">>, ProjB)>> }

InitResolveName ==
    /\ gp \in NameRecords
    /\ dirs = {}
    /\ cs \in NameChangeLists
    /\ ResolveIdle

\* the clone's outcome and the configured user vary although no reference
\* without a separator should depend on them
NameEnvs ==
    {e \in ResolveEnvs :
        \/ e.clone = "ok" /\ e.ghUser = EMPTY
        \/ e.clone = "fail" /\ e.ghUser = ProjA}

ResolveName(ref, e) ==
    /\ rsN < MaxResolves
    /\ LET r == ResolveGhRef(ref, gp, dirs, cs, e) IN
        /\ gp' = r.gp
        /\ dirs' = r.dirs
        /\ rsOut' = r.out
        /\ rsCalls' = r.calls
        /\ rsRepo' = r.repo
    /\ rsN' = rsN + 1
    /\ rsRef' = ref
    /\ rsEnv' = e
    /\ rsPrev' = [gp |-> gp, dirs |-> dirs]
    /\ UNCHANGED <<cs, runVars, submitVars, pluginVars, concVars, scriptVars>>

NextResolveName == \E ref \in NameRefs, e \in NameEnvs : ResolveName(ref, e)


(***************************************************************************)
(* Decimal conversion: str(int) and int(str)                               *)
(***************************************************************************)
Digits == <<"0", "1", "2", "3", "4", "5", "6", "7", "8", "9">>

RECURSIVE DecDigits(_)
DecDigits(n) ==
    IF n < 10 THEN <<Digits[n + 1]>>
    ELSE Append(DecDigits(n \div 10), Digits[(n % 10) + 1])

\* str(n)
DecStr(n) == IF n < 0 THEN <<"-">> \o DecDigits(-n) ELSE DecDigits(n)

IsDigit(ch) == \E j \in 1..Len(Digits) : Digits[j] = ch

DigitValue(ch) == CHOOSE d \in 0..9 : Digits[d + 1] = ch

\* the digits of a numeral, read over the underscores between them
RECURSIVE ParseDigits(_, _)
ParseDigits(s, acc) ==
    IF s = EMPTY THEN acc
    ELSE IF Head(s) = "_" THEN ParseDigits(Tail(s), acc)
    ELSE ParseDigits(Tail(s), acc * 10 + DigitValue(Head(s)))

\* digits, with single underscores allowed between two of them
ValidDigits(s) ==
    /\ s # EMPTY
    /\ \A i \in 1..Len(s) :
        \/ IsDigit(s[i])
        \/ /\ s[i] = "_"
           /\ 1 < i
           /\ i < Len(s)
           /\ IsDigit(s[i - 1])
           /\ IsDigit(s[i + 1])

\* the characters int() passes over around a numeral: str.strip()'s without
\* the four separators FS, GS, RS and US
IsIntSpace(ch) == IsSpace(ch) /\ ch \notin {Ch_FS, Ch_GS, Ch_RS, Ch_US}

RECURSIVE StripIntSpace(_)
StripIntSpace(s) ==
    IF s # EMPTY /\ IsIntSpace(Head(s)) THEN StripIntSpace(Tail(s))
    ELSE IF s # EMPTY /\ IsIntSpace(s[Len(s)])
    THEN StripIntSpace(SubSeq(s, 1, Len(s) - 1))
    ELSE s

\* int(s): {} when it raises ValueError, else the number; the whitespace
\* int() knows is dropped around the numeral and one sign may precede the
\* digits
ParseInt(s) ==
    LET t == StripIntSpace(s)
        signed == t # EMPTY /\ Head(t) \in {"+", "-"}
        body == IF signed THEN Tail(t) ELSE t
    IN IF ~ValidDigits(body) THEN {}
       ELSE IF signed /\ Head(t) = "-" THEN {-ParseDigits(body, 0)}
       ELSE {ParseDigits(body, 0)}

(***************************************************************************)
(* The workspace registry (sase.running_field)                             *)
(***************************************************************************)
Procs == 1..NumProcs
Slots == 99..(99 + NumProcs)

ClaimRec(pf, num, workflow, pid, cl, pinned) ==
    [project_file |-> pf, num |-> num, workflow |-> workflow, pid |-> pid,
     cl_name |-> cl, pinned |-> pinned]

Held(r, pf, num) == \E c \in r : c.project_file = pf /\ c.num = num

\* get_first_available_axe_workspace
FirstAvailable(r, pf) ==
    CHOOSE n \in 99..(99 + Cardinality(r)) :
        ~Held(r, pf, n) /\ \A m \in 99..(n - 1) : Held(r, pf, m)

\* claim_workspace: refused for a slot already held
ClaimOk(r, pf, num) == ~Held(r, pf, num)

ClaimWorkspace(r, c) ==
    IF ClaimOk(r, c.project_file, c.num) THEN r \cup {c} ELSE r

\* release_workspace: drops the claim of that slot made under that workflow
ReleaseWorkspace(r, pf, num, workflow) ==
    {c \in r : ~(c.project_file = pf /\ c.num = num /\ c.workflow = workflow)}

(***************************************************************************)
(* resolve_gh_ref, step by step                                            *)
(***************************************************************************)
\* Mode 1 up to the conflict check: the record is read and compared
RepoPathCheck(ref, g) ==
    LET parts == RepoPathParts(ref) IN
    IF ~ValidRepoPath(ref) THEN Failure("invalid_repo_path", ref, EMPTY)
    ELSE LET primary == PrimaryWorkspaceDir(parts[1], parts[2])
             existing == ParseWorkspaceDir(g, ProjectFile(parts[2]))
         IN IF WorkspaceDirConflict(existing, primary)
            THEN Failure("conflict", existing, primary)
            ELSE Passed

\* resolve_gh_ref is entered: a separator in the reference chooses mode 1
ConcEnter(p, ref) ==
    /\ cPc[p] = "idle"
    /\ cRef' = [cRef EXCEPT ![p] = ref]
    /\ cPc' = [cPc EXCEPT ![p] =
                   IF Contains(ref, SEP) THEN "check" ELSE "shorthand"]
    /\ UNCHANGED <<cOut, cLoc>>

\* the directory a process derived, as git is given it
ConcTarget(p) ==
    LET parts == RepoPathParts(cRef[p]) IN
    RStrip(PrimaryWorkspaceDir(parts[1], parts[2]))

\* the process leaves resolve_gh_ref with an outcome
ConcLeave(p, out) ==
    /\ cPc' = [cPc EXCEPT ![p] = "done"]
    /\ cOut' = [cOut EXCEPT ![p] = out]

\* a process reads the record and checks it against the derived directory
ConcCheck(p) ==
    /\ cPc[p] = "check"
    /\ LET chk == RepoPathCheck(cRef[p], gp) IN
       IF chk = Passed
       THEN /\ cPc' = [cPc EXCEPT ![p] = "finish"]
            /\ UNCHANGED cOut
       ELSE ConcLeave(p, chk)
    /\ UNCHANGED <<storeVars, cRef, cLoc, resolveVars, runVars, submitVars,
                   pluginVars, scriptVars>>

\* the error _clone_gh_repo raises: the clone URL and git's stripped stderr
ConcCloneFailure(p, e) ==
    LET parts == RepoPathParts(cRef[p]) IN
    Failure("clone_failed", CloneUrl(e.ghUser, parts[1], parts[2]),
            CloneErrorText(e))

\* os.path.isdir on the derived directory decides whether to clone
ConcIsDir(p) ==
    /\ cPc[p] = "finish"
    /\ cPc' = [cPc EXCEPT ![p] =
                   IF IsDir(dirs, ConcTarget(p)) THEN "write" ELSE "clone"]
    /\ UNCHANGED <<storeVars, cRef, cOut, cLoc, resolveVars, runVars,
                   submitVars, pluginVars, scriptVars>>

\* _clone_gh_repo starts: the parent is made and git takes the destination,
\* which it refuses when it exists and is not empty
ConcCloneStart(p, e) ==
    /\ cPc[p] = "clone"
    /\ LET target == ConcTarget(p)
           d1 == MakeDirs(dirs, DirName(target))
       IN IF IsDir(d1, target) /\ ~IsEmptyDir(d1, target)
          THEN /\ dirs' = d1
               /\ ConcLeave(p, ConcCloneFailure(p, e))
          ELSE /\ dirs' = CloneInto(d1, target)
               /\ cPc' = [cPc EXCEPT ![p] =
                              IF IsDir(d1, target) THEN "cloning_reused"
                              ELSE "cloning_new"]
               /\ UNCHANGED cOut
    /\ UNCHANGED <<gp, cs, cRef, cLoc, resolveVars, runVars, submitVars,
                   pluginVars, scriptVars>>

\* git clone ends: a failed clone removes what it created
ConcCloneEnd(p, e) ==
    /\ cPc[p] \in {"cloning_new", "cloning_reused"}
    /\ LET r == ResolvedDir(ConcTarget(p))
           created == IF cPc[p] = "cloning_new" THEN {r} ELSE {}
       IN IF e.clone = "ok"
          THEN /\ cPc' = [cPc EXCEPT ![p] = "write"]
               /\ UNCHANGED <<dirs, cOut>>
          ELSE /\ dirs' = {x \in dirs : ~IsUnder(x, r)} \ created
               /\ ConcLeave(p, ConcCloneFailure(p, e))
    /\ UNCHANGED <<gp, cs, cRef, cLoc, resolveVars, runVars, submitVars,
                   pluginVars, scriptVars>>

\* set_workspace_dir writes the derived directory into the project file
ConcWrite(p) ==
    /\ cPc[p] = "write"
    /\ LET parts == RepoPathParts(cRef[p]) IN
       gp' = SetWorkspaceDir(gp, ProjectFile(parts[2]),
                             PrimaryWorkspaceDir(parts[1], parts[2]))
    /\ cPc' = [cPc EXCEPT ![p] = "branch"]
    /\ UNCHANGED <<dirs, cs, cRef, cOut, cLoc, resolveVars, runVars,
                   submitVars, pluginVars, scriptVars>>

\* get_default_branch names the checkout target and the result is returned
ConcReturn(p, e) ==
    /\ cPc[p] = "branch"
    /\ LET parts == RepoPathParts(cRef[p]) IN
       ConcLeave(p, Resolved(ProjectFile(parts[2]), parts[2],
                             PrimaryWorkspaceDir(parts[1], parts[2]),
                             e.branch))
    /\ UNCHANGED <<storeVars, cRef, cLoc, resolveVars, runVars, submitVars,
                   pluginVars, scriptVars>>

\* Mode 2: the project directory and the project file are looked for
ConcExists(p) ==
    /\ cPc[p] = "shorthand"
    /\ cPc' = [cPc EXCEPT ![p] =
                   IF ProjectFile(cRef[p]) \in DOMAIN gp THEN "short_parse"
                   ELSE "find"]
    /\ UNCHANGED <<storeVars, cRef, cOut, cLoc, resolveVars, runVars,
                   submitVars, pluginVars, scriptVars>>

\* Mode 2: the project file is read; an unset directory falls through
ConcShortParse(p) ==
    /\ cPc[p] = "short_parse"
    /\ LET pf == ProjectFile(cRef[p])
           wd == ParseWorkspaceDir(gp, pf)
       IN IF wd # EMPTY
          THEN /\ cLoc' = [cLoc EXCEPT ![p] =
                              [file_path |-> pf, workspace_dir |-> wd]]
               /\ cPc' = [cPc EXCEPT ![p] = "short_branch"]
          ELSE /\ cPc' = [cPc EXCEPT ![p] = "find"]
               /\ UNCHANGED cLoc
    /\ UNCHANGED <<storeVars, cRef, cOut, resolveVars, runVars, submitVars,
                   pluginVars, scriptVars>>

\* Mode 2: get_default_branch names the checkout target
ConcShortReturn(p, e) ==
    /\ cPc[p] = "short_branch"
    /\ ConcLeave(p, Resolved(cLoc[p].file_path, cRef[p],
                             cLoc[p].workspace_dir, e.branch))
    /\ UNCHANGED <<storeVars, cRef, cLoc, resolveVars, runVars, submitVars,
                   pluginVars, scriptVars>>

\* the change records of that name, in the order find_all_changespecs lists
NamedChanges(list, name) == SelectSeq(list, LAMBDA c : c.name = name)

\* Mode 3: the first change record of that name is looked for
ConcFind(p) ==
    /\ cPc[p] = "find"
    /\ LET found == NamedChanges(cs, cRef[p]) IN
       IF found = <<>>
       THEN /\ ConcLeave(p, Failure("cannot_resolve", cRef[p], EMPTY))
            /\ UNCHANGED cLoc
       ELSE /\ cLoc' = [cLoc EXCEPT ![p] = Head(found)]
            /\ cPc' = [cPc EXCEPT ![p] = "find_parse"]
            /\ UNCHANGED cOut
    /\ UNCHANGED <<storeVars, cRef, resolveVars, runVars, submitVars,
                   pluginVars, scriptVars>>

\* Mode 3: the project file of the change is read
ConcFindParse(p) ==
    /\ cPc[p] = "find_parse"
    /\ LET c == cLoc[p]
           wd == ParseWorkspaceDir(gp, c.file_path)
       IN ConcLeave(p, IF wd = EMPTY
                       THEN Failure("workspace_dir_not_set", cRef[p],
                                    c.file_path)
                       ELSE Resolved(c.file_path, c.project_basename, wd,
                                     S_origin \o <<SEP>> \o cRef[p]))
    /\ UNCHANGED <<storeVars, cRef, cLoc, resolveVars, runVars, submitVars,
                   pluginVars, scriptVars>>

\* the steps of mode 1
RepoPathSteps(p) ==
    \/ ConcCheck(p)
    \/ ConcIsDir(p)
    \/ \E e \in SeqEnvs : ConcCloneStart(p, e)
    \/ \E e \in SeqEnvs : ConcCloneEnd(p, e)
    \/ ConcWrite(p)
    \/ \E e \in SeqEnvs : ConcReturn(p, e)

\* the steps of modes 2 and 3
NameSteps(p) ==
    \/ ConcExists(p)
    \/ ConcShortParse(p)
    \/ \E e \in SeqEnvs : ConcShortReturn(p, e)
    \/ ConcFind(p)
    \/ ConcFindParse(p)

(***************************************************************************)
(* allocate_gh_workspace, pre_agent, post_agent                            *)
(***************************************************************************)
S_gh == <<"g", "h", "-">>
S_ws == <<"_">>

\* ensure_git_clone: the directory of slot num beside the primary one
EnsureGitClone(primary, num) == RStrip(primary) \o S_ws \o DecStr(num)

\* the slot and directory allocate_gh_workspace settles on, and the calls made
\* the selection raised: a variable is unset (KeyError) or int() refused the
\* number (ValueError)
SelectRaised == [num |-> -1, dir |-> EMPTY, calls |-> <<>>, raised |-> TRUE]

SelectPreAllocated(a) ==
    IF a.envNum = {} \/ ParseInt(TextOf(a.envNum)) = {} \/ a.envDir = {}
    THEN SelectRaised
    ELSE [num |-> CHOOSE n \in ParseInt(TextOf(a.envNum)) : TRUE,
          dir |-> TextOf(a.envDir), calls |-> <<>>, raised |-> FALSE]

SelectExplicit(a, resolved) ==
    LET num == CHOOSE k \in a.n : TRUE IN
    [num |-> num, dir |-> EnsureGitClone(resolved.primary_workspace_dir, num),
     calls |-> <<Call("ensure_git_clone", num)>>, raised |-> FALSE]

SelectFirstAvailable(r, resolved) ==
    LET num == FirstAvailable(r, resolved.project_file) IN
    [num |-> num, dir |-> EnsureGitClone(resolved.primary_workspace_dir, num),
     calls |-> <<Call("get_first_available_axe_workspace", resolved.project_file),
                 Call("ensure_git_clone", num)>>, raised |-> FALSE]

\* variant: an explicit slot is preferred to the pre-allocated one
SelectSlotExplicitFirst(a, r, resolved) ==
    IF a.n # {} THEN SelectExplicit(a, resolved)
    ELSE IF a.preAllocated THEN SelectPreAllocated(a)
    ELSE SelectFirstAvailable(r, resolved)

SelectSlot(a, r, resolved) ==
    IF a.preAllocated THEN SelectPreAllocated(a)
    ELSE IF a.n # {} THEN SelectExplicit(a, resolved)
    ELSE SelectFirstAvailable(r, resolved)

\* the workflow tag of the claim
ClaimWorkflowName(ref) == S_gh \o ref

\* variant: the claim is pinned when the slot is to be released
AllocClaimPinnedWhenReleasing(a, ctx, pid) ==
    ClaimRec(ctx.project_file, ctx.workspace_num, ClaimWorkflowName(a.ref), pid,
             None, a.release)

\* the claim allocate_gh_workspace issues
AllocClaim(a, ctx, pid) ==
    ClaimRec(ctx.project_file, ctx.workspace_num, ClaimWorkflowName(a.ref), pid,
             None, ~a.release)

NoCtx == [workspace_num |-> -1]

RunnerContext(a, resolved, sel) ==
    [project_name |-> resolved.project_name,
     project_file |-> resolved.project_file,
     workspace_dir |-> sel.dir,
     workspace_num |-> sel.num,
     checkout_target |-> resolved.checkout_target,
     primary_workspace_dir |-> resolved.primary_workspace_dir,
     should_release |-> a.release,
     head_before |-> EMPTY]

\* what allocate_gh_workspace hands back; the claim's answer is not looked at
AllocateResult(ctx, claimed) == [kind |-> "ok", ctx |-> ctx]

\* the workflow tag and change id of the release
ReleaseWorkflowName(ctx) == S_gh \o ctx.checkout_target

\* variant: the change id is the checkout target whatever its shape
ReleaseClNameAlways(ctx) == ctx.checkout_target

ReleaseClName(ctx) ==
    IF ~Contains(ctx.checkout_target, SEP) THEN ctx.checkout_target ELSE None

\* variant: the slot is released whatever the context says
ShouldReleaseAlways(ctx) == TRUE

\* post_agent releases the slot
ShouldRelease(ctx) == ctx.should_release

GitFailed == <<"!">>

\* variant: the head is not compared
HeadMovedUnchecked(ctx, g) == TRUE

\* the head is re-read and differs from the one captured before the run
HeadMoved(ctx, g) == StripWs(g.revParse) # ctx.head_before

\* the meta mapping of post_agent
PostAgentMeta(ctx, g) ==
    LET base == [k \in {"meta_workspace"} |-> DecStr(ctx.workspace_num)]
        msg == StripWs(g.log)
    IN IF ctx.head_before # EMPTY /\ HeadMoved(ctx, g) /\ msg # EMPTY
       THEN [k \in {"meta_workspace", "meta_commit_message"} |->
                IF k = "meta_workspace" THEN base[k] ELSE msg]
       ELSE base

\* the git queries post_agent makes, in order
PostAgentQueries(ctx, g) ==
    <<Call("capture_git_diff", ctx.head_before)>>
    \o (IF ctx.head_before # EMPTY
        THEN <<Call("rev-parse", EMPTY)>>
             \o (IF g.revParse # GitFailed /\ HeadMoved(ctx, g)
                 THEN <<Call("log", EMPTY)>> ELSE <<>>)
        ELSE <<>>)

\* a git query run with check=True raises when git fails
PostAgentRaises(ctx, g) ==
    /\ ctx.head_before # EMPTY
    /\ \/ g.revParse = GitFailed
       \/ HeadMoved(ctx, g) /\ g.log = GitFailed

PostAgentResult(ctx, g) ==
    IF PostAgentRaises(ctx, g) THEN [kind |-> "raised"]
    ELSE [kind |-> "ok", diff_path |-> g.diff, meta |-> PostAgentMeta(ctx, g)]

(***************************************************************************)
(* Runs                                                                    *)
(***************************************************************************)
NoArgs == [ref |-> EMPTY]
NoClaim == [called |-> FALSE]
NoGit == [diff |-> None]

RunIdle ==
    /\ rPc = [p \in Procs |-> "idle"]
    /\ rArgs = [p \in Procs |-> NoArgs]
    /\ rRes = [p \in Procs |-> NoResult]
    /\ rCtx = [p \in Procs |-> NoCtx]
    /\ rClaim = [p \in Procs |-> NoClaim]
    /\ rLog = [p \in Procs |-> <<>>]
    /\ rGit = [p \in Procs |-> NoGit]
    /\ rOut = [p \in Procs |-> NoResult]

\* the store the runs resolve against: project b is recorded and cloned,
\* and a change named "ab" belongs to it
RunGp == [x \in {ProjectFile(ProjB)} |-> PrimaryWorkspaceDir(ProjA, ProjB)]
RunDirs == Ancestors(PrimaryWorkspaceDir(ProjA, ProjB))
RunChange == <<"a", "b">>
RunCs == <<ChangeSpec(RunChange, ProjB)>>
RunRefs == {<<"a", "/", "b">>, <<"b", "/", "b">>, ProjB, RunChange}

\* a claim some other workflow holds
OtherClaim(num) ==
    ClaimRec(ProjectFile(ProjB), num, <<"x">>, 0, None, FALSE)

RunStore ==
    /\ gp = RunGp
    /\ dirs = RunDirs
    /\ cs = RunCs

\* the same store, or one where nothing is recorded or cloned yet
RunStores ==
    /\ cs = RunCs
    /\ \/ gp = RunGp /\ dirs = RunDirs
       \/ gp = NoRecords /\ dirs = {}

\* allocate_gh_workspace, line 44: resolve_ref is called
Begin(p, a) ==
    /\ rPc[p] = "idle"
    /\ ConcEnter(p, a.ref)
    /\ rArgs' = [rArgs EXCEPT ![p] = a]
    /\ rLog' = [rLog EXCEPT ![p] = <<Call("resolve_ref", a.ref)>>]
    /\ rPc' = [rPc EXCEPT ![p] = "resolve"]
    /\ UNCHANGED <<storeVars, reg, rRes, rCtx, rClaim, rGit, rOut,
                   resolveVars, submitVars, pluginVars, scriptVars>>

\* allocate_gh_workspace, line 44: resolve_ref returns or raises
ResolveReturns(p) ==
    /\ rPc[p] = "resolve"
    /\ cPc[p] = "done"
    /\ IF cOut[p].kind # "ok"
       THEN /\ rPc' = [rPc EXCEPT ![p] = "done"]
            /\ rOut' = [rOut EXCEPT ![p] = [kind |-> "raised"]]
            /\ UNCHANGED rRes
       ELSE /\ rPc' = [rPc EXCEPT ![p] = "select"]
            /\ rRes' = [rRes EXCEPT ![p] = cOut[p]]
            /\ UNCHANGED rOut
    /\ UNCHANGED <<storeVars, reg, rArgs, rCtx, rClaim, rLog, rGit,
                   resolveVars, submitVars, pluginVars, concVars, scriptVars>>

\* allocate_gh_workspace, lines 50-58: the slot and its directory
Select(p) ==
    /\ rPc[p] = "select"
    /\ LET sel == SelectSlot(rArgs[p], reg, rRes[p]) IN
       IF sel.raised
       THEN /\ rPc' = [rPc EXCEPT ![p] = "done"]
            /\ rOut' = [rOut EXCEPT ![p] = [kind |-> "raised"]]
            /\ UNCHANGED <<rCtx, rLog>>
       ELSE /\ rPc' = [rPc EXCEPT ![p] = "claim"]
            /\ rCtx' = [rCtx EXCEPT ![p] = RunnerContext(rArgs[p], rRes[p], sel)]
            /\ rLog' = [rLog EXCEPT ![p] = @ \o sel.calls]
            /\ UNCHANGED rOut
    /\ UNCHANGED <<storeVars, reg, rArgs, rRes, rClaim, rGit, resolveVars,
                   submitVars, pluginVars, concVars, scriptVars>>

\* the claim, and allocate_gh_workspace's return
Claim(p) ==
    /\ rPc[p] = "claim"
    /\ LET ctx == rCtx[p]
           c == AllocClaim(rArgs[p], ctx, p)
           claimed == ClaimOk(reg, c.project_file, c.num)
           res == AllocateResult(ctx, claimed)
       IN /\ reg' = ClaimWorkspace(reg, c)
          /\ rClaim' = [rClaim EXCEPT ![p] =
                           [called |-> TRUE, claim |-> c, claimed |-> claimed]]
          /\ rLog' = [rLog EXCEPT ![p] = Append(@, Call("claim_workspace", c.num))]
          /\ IF res.kind = "ok"
             THEN /\ rPc' = [rPc EXCEPT ![p] = "prepare"]
                  /\ UNCHANGED rOut
             ELSE /\ rPc' = [rPc EXCEPT ![p] = "done"]
                  /\ rOut' = [rOut EXCEPT ![p] = [kind |-> "alloc_failed"]]
    /\ UNCHANGED <<storeVars, rArgs, rRes, rCtx, rGit, resolveVars, submitVars, pluginVars, concVars, scriptVars>>

Heads == {<<"h", "0">>, <<"h", "1">>}

\* variant: the working directory is changed before the workspace is prepared
PrepareChdirFirst(p, head) ==
    /\ rPc[p] = "prepare"
    /\ rCtx' = [rCtx EXCEPT ![p].head_before = head]
    /\ rLog' = [rLog EXCEPT ![p] =
                   @ \o <<Call("chdir", rCtx[p].workspace_dir),
                          Call("prepare_git_workspace", rCtx[p].workspace_dir)>>]
    /\ rPc' = [rPc EXCEPT ![p] = "agent"]
    /\ UNCHANGED <<storeVars, reg, rArgs, rRes, rClaim, rGit, rOut, resolveVars, submitVars, pluginVars, concVars, scriptVars>>

\* pre_agent after the allocation: prepare the workspace, record the head
Prepare(p, head) ==
    /\ rPc[p] = "prepare"
    /\ rCtx' = [rCtx EXCEPT ![p].head_before = head]
    /\ rLog' = [rLog EXCEPT ![p] =
                   @ \o <<Call("prepare_git_workspace", rCtx[p].workspace_dir),
                          Call("chdir", rCtx[p].workspace_dir)>>]
    /\ rPc' = [rPc EXCEPT ![p] = "agent"]
    /\ UNCHANGED <<storeVars, reg, rArgs, rRes, rClaim, rGit, rOut, resolveVars, submitVars, pluginVars, concVars, scriptVars>>

\* post_agent, first half: the release
PostRelease(p) ==
    /\ rPc[p] = "agent"
    /\ LET ctx == rCtx[p] IN
       IF ShouldRelease(ctx)
       THEN /\ reg' = ReleaseWorkspace(reg, ctx.project_file, ctx.workspace_num,
                                       ReleaseWorkflowName(ctx))
            /\ rLog' = [rLog EXCEPT ![p] = Append(@,
                           [op |-> "release_workspace",
                            arg |-> ctx.workspace_num,
                            project_file |-> ctx.project_file,
                            workflow |-> ReleaseWorkflowName(ctx),
                            cl_name |-> ReleaseClName(ctx)])]
       ELSE UNCHANGED <<reg, rLog>>
    /\ rPc' = [rPc EXCEPT ![p] = "post"]
    /\ UNCHANGED <<storeVars, rArgs, rRes, rCtx, rClaim, rGit, rOut, resolveVars, submitVars, pluginVars, concVars, scriptVars>>

\* post_agent, second half: the diff, the git queries and the result
PostRead(p, g) ==
    /\ rPc[p] = "post"
    /\ rGit' = [rGit EXCEPT ![p] = g]
    /\ rLog' = [rLog EXCEPT ![p] = @ \o PostAgentQueries(rCtx[p], g)]
    /\ rOut' = [rOut EXCEPT ![p] = PostAgentResult(rCtx[p], g)]
    /\ rPc' = [rPc EXCEPT ![p] = "done"]
    /\ UNCHANGED <<storeVars, reg, rArgs, rRes, rCtx, rClaim, resolveVars, submitVars, pluginVars, concVars, scriptVars>>

\* the arguments and environment of a run; n is {} for None, {k} for slot k
\* SASE_GH_WORKSPACE_NUM and SASE_GH_WORKSPACE_DIR: {} when unset
EnvNums ==
    {{}} \cup {{t} : t \in
        {DecStr(99), <<"7">>, <<"0", "7">>, <<"+", "7">>, <<" ", "7", "\n">>,
         <<Ch_VT, "7", Ch_NBSP>>, <<"1", "_", "0">>, <<"-", "1">>, EMPTY,
         <<"-">>, <<"1", "_", "_", "0">>, <<"_", "7">>, <<"7", " ", "7">>,
         <<"7", "a">>, <<Ch_FS, "7">>, <<"7", Ch_US>>, <<" ", "7", Ch_GS>>}}
EnvDir == <<"/", "t">>
EnvDirs == {{}, {EnvDir}}

RunArgs ==
    [ref : RunRefs, n : {{}} \cup {{k} : k \in Slots}, release : BOOLEAN,
     preAllocated : BOOLEAN, envNum : EnvNums, envDir : EnvDirs]

\* arguments without the pre-allocation environment
PlainRunArgs ==
    {a \in RunArgs :
        ~a.preAllocated /\ a.envNum = {DecStr(99)} /\ a.envDir = {EnvDir}}

\* what git may print
GitHeads ==
    {h \o <<"\n">> : h \in Heads} \cup {<<Ch_RS>> \o h \o <<"\f">> : h \in Heads}
    \cup {GitFailed}
GitSubjects ==
    {EMPTY, <<"\n">>, <<Ch_VT>>, <<"a", " ", "b", "\n">>,
     <<"\t", "a", "\r", "\n">>, <<Ch_NBSP, "a", Ch_US>>, GitFailed}
GitAnswers == [diff : {None, <<"d">>}, revParse : GitHeads, log : GitSubjects]

\* one run at a time, with a slot possibly held by another workflow
InitRun ==
    /\ RunStores
    /\ reg \in {{}, {OtherClaim(99)}}
    /\ RunIdle

\* the process of a run made alone
MainProc == CHOOSE p \in Procs : \A q \in Procs : p <= q

NextRun ==
    \/ \E a \in {x \in RunArgs : x.preAllocated} \cup PlainRunArgs :
          Begin(MainProc, a)
    \/ RepoPathSteps(MainProc)
    \/ NameSteps(MainProc)
    \/ ResolveReturns(MainProc)
    \/ Select(MainProc)
    \/ Claim(MainProc)
    \/ \E h \in Heads \cup {EMPTY} : Prepare(MainProc, h)
    \/ PostRelease(MainProc)
    \/ \E g \in GitAnswers : PostRead(MainProc, g)

\* concurrent runs in separate processes
InitRunConc ==
    /\ RunStores
    /\ reg = {}
    /\ RunIdle

ConcGit == [diff |-> None, revParse |-> <<"h", "0", "\n">>, log |-> EMPTY]

NextRunConc ==
    \E p \in Procs :
        \/ \E a \in {x \in PlainRunArgs : x.n \in {{}, {99}}} : Begin(p, a)
        \/ RepoPathSteps(p)
        \/ NameSteps(p)
        \/ ResolveReturns(p)
        \/ Select(p)
        \/ Claim(p)
        \/ Prepare(p, <<"h", "0">>)
        \/ PostRelease(p)
        \/ PostRead(p, ConcGit)

(***************************************************************************)
(* ws_submit                                                               *)
(***************************************************************************)
S_submit == <<"s", "u", "b", "m", "i", "t", "-">>
TerminalStatuses == {"Submitted", "Reverted", "Archived"}
NoSpec == [name |-> EMPTY]

\* the loop over find_all_changespecs(): the first record of that name
RECURSIVE FindChangeSpec(_, _)
FindChangeSpec(list, name) ==
    IF list = <<>> THEN NoSpec
    ELSE IF Head(list).name = name THEN Head(list)
    ELSE FindChangeSpec(Tail(list), name)

\* has_active_children: a record names this one as parent and is not terminal
HasActiveChildren(c, all, terminal) ==
    \E i \in 1..Len(all) : all[i].parent = c.name /\ all[i].status \notin terminal

Returned(ok, msg) == [kind |-> "returned", ok |-> ok, msg |-> msg]
Declined == [kind |-> "declined"]
Raised(at) == [kind |-> "raised", at |-> at]

\* what ws_submit has done when its precondition checks end: the value it
\* returns (or that the checks passed) and the registry operations made
Prechecked(out, registry) == [out |-> out, registry |-> registry]

\* variant: the slot is selected before the workspace directory is looked up
SubmitPrecheckSelectFirst(a, g, list) ==
    LET c == FindChangeSpec(list, a.name)
        sel == <<Call("get_first_available_axe_workspace", a.file)>>
    IN IF a.vcs # "gh" THEN Prechecked(Declined, <<>>)
       ELSE IF c = NoSpec THEN Prechecked(Returned(FALSE, "not_found"), <<>>)
       ELSE IF HasActiveChildren(c, list, TerminalStatuses)
            THEN Prechecked(Returned(FALSE, "active_children"), <<>>)
       ELSE IF ParseWorkspaceDir(g, a.file) = EMPTY
            THEN Prechecked(Returned(FALSE, "workspace_dir_not_set"), sel)
       ELSE Prechecked(Passed, <<>>)

\* the precondition checks of ws_submit, in order
SubmitPrecheck(a, g, list) ==
    LET c == FindChangeSpec(list, a.name) IN
    IF a.vcs # "gh" THEN Prechecked(Declined, <<>>)
    ELSE IF c = NoSpec THEN Prechecked(Returned(FALSE, "not_found"), <<>>)
    ELSE IF HasActiveChildren(c, list, TerminalStatuses)
         THEN Prechecked(Returned(FALSE, "active_children"), <<>>)
    ELSE IF ParseWorkspaceDir(g, a.file) = EMPTY
         THEN Prechecked(Returned(FALSE, "workspace_dir_not_set"), <<>>)
    ELSE Prechecked(Passed, <<>>)

SubmitWorkflowName(name) == S_submit \o name

\* the claim ws_submit issues
SubmitClaimRec(a, num, pid) ==
    ClaimRec(a.file, num, SubmitWorkflowName(a.name), pid, a.name, FALSE)

\* a call of the body of ws_submit and how it ended
Answered(op, ans) == [op |-> op, ans |-> ans]

\* variant: a PR is taken to exist without asking
CheckExistingPrAssumed(e) == TRUE

\* _check_existing_pr: any failure to ask counts as no PR
CheckExistingPr(e) == e.pr = "yes"

S_mergeFailed ==
    <<"g", "h", " ", "p", "r", " ", "m", "e", "r", "g", "e", " ",
      "f", "a", "i", "l", "e", "d">>

\* the message of a failed merge: stderr, else stdout, both stripped
MergeFailureMessage(stderr, stdout) ==
    LET error_msg == IF StripWs(stderr) # EMPTY THEN StripWs(stderr)
                     ELSE StripWs(stdout)
    IN IF error_msg # EMPTY THEN S_mergeFailed \o <<":", " ">> \o error_msg
       ELSE S_mergeFailed

ReturnedText(ok, msg, text) ==
    [kind |-> "returned", ok |-> ok, msg |-> msg, text |-> text]

\* _submit_via_pr_merge
SubmitViaPrMerge(e) ==
    IF e.username = EMPTY THEN Returned(FALSE, "no_username")
    ELSE IF e.raiseAt = "merge" THEN Raised("merge")
    ELSE IF e.merge = "notfound" THEN Returned(FALSE, "gh_not_found")
    ELSE IF e.merge = "fail"
         THEN ReturnedText(FALSE, "merge_failed",
                           MergeFailureMessage(e.mergeErr, e.mergeOut))
    ELSE IF e.raiseAt = "finalize" THEN Raised("finalize")
    ELSE Returned(e.finalize, IF e.finalize THEN "none" ELSE "finalize_failed")

\* the calls _submit_via_pr_merge makes, in order, with their answers
SubmitViaPrMergeCalls(e) ==
    <<Answered("get_github_username", IF e.username = EMPTY THEN "none" ELSE "set")>>
    \o (IF e.username = EMPTY THEN <<>>
        ELSE IF e.raiseAt = "merge" THEN <<Answered("gh pr merge", "raised")>>
        ELSE IF e.merge # "ok"
             THEN <<[op |-> "gh pr merge", ans |-> e.merge,
                     stderr |-> e.mergeErr, stdout |-> e.mergeOut]>>
        ELSE <<Answered("gh pr merge", "ok"),
               Answered("finalize_submission",
                        IF e.raiseAt = "finalize" THEN "raised"
                        ELSE IF e.finalize THEN "ok" ELSE "fail")>>)

\* the calls the body of the try statement makes, in order, with their answers
SubmitBodyCalls(e) ==
    IF e.raiseAt = "get_vcs_provider"
    THEN <<Answered("get_vcs_provider", "raised")>>
    ELSE <<Answered("get_vcs_provider", "ok")>> \o
    (IF e.raiseAt = "resolve_revision"
     THEN <<Answered("resolve_revision", "raised")>>
     ELSE <<Answered("resolve_revision", "ok")>> \o
     (IF e.raiseAt = "checkout" THEN <<Answered("checkout", "raised")>>
      ELSE IF ~e.checkout THEN <<Answered("checkout", "fail")>>
      ELSE <<Answered("checkout", "ok")>> \o
      (IF e.raiseAt = "get_default_branch"
       THEN <<Answered("get_default_branch", "raised")>>
       ELSE <<Answered("get_default_branch", "ok"), Answered("gh pr view", e.pr)>>
            \o (IF CheckExistingPr(e) THEN SubmitViaPrMergeCalls(e) ELSE <<>>))))

\* the body of the try statement of ws_submit
SubmitBody(e) ==
    IF e.raiseAt = "get_vcs_provider" THEN Raised("get_vcs_provider")
    ELSE IF e.raiseAt = "resolve_revision" THEN Raised("resolve_revision")
    ELSE IF e.raiseAt = "checkout" THEN Raised("checkout")
    ELSE IF ~e.checkout THEN Returned(FALSE, "checkout_failed")
    ELSE IF e.raiseAt = "get_default_branch" THEN Raised("get_default_branch")
    ELSE IF ~CheckExistingPr(e) THEN Returned(FALSE, "no_pr")
    ELSE SubmitViaPrMerge(e)

\* variant: the release follows the try statement instead of being its
\* finally clause
CleanupRunsOnReturnOnly(out) == out.kind = "returned"

\* the finally clause runs however the body ended
CleanupRuns(out) == out.kind \in {"returned", "raised"}

(***************************************************************************)
(* Submissions                                                             *)
(***************************************************************************)
NoSubmitArgs == [name |-> EMPTY]
NoSubmitClaim == [made |-> FALSE]

SubmitIdle ==
    /\ sPc = [p \in Procs |-> "idle"]
    /\ sArgs = [p \in Procs |-> NoSubmitArgs]
    /\ sNum = [p \in Procs |-> -1]
    /\ sClaim = [p \in Procs |-> NoSubmitClaim]
    /\ sLog = [p \in Procs |-> <<>>]
    /\ sOut = [p \in Procs |-> NoResult]

\* ws_submit up to the slot selection
SubmitStart(p, a, dirOk) ==
    /\ sPc[p] = "idle"
    /\ sArgs' = [sArgs EXCEPT ![p] = a]
    /\ LET pre == SubmitPrecheck(a, gp, cs)
           num == FirstAvailable(reg, a.file)
           sel == <<Call("get_first_available_axe_workspace", a.file)>>
       IN IF pre.out.kind # "pass"
          THEN /\ sPc' = [sPc EXCEPT ![p] = "done"]
               /\ sOut' = [sOut EXCEPT ![p] = pre.out]
               /\ sLog' = [sLog EXCEPT ![p] = pre.registry]
               /\ UNCHANGED sNum
          ELSE /\ sNum' = [sNum EXCEPT ![p] = num]
               /\ sLog' = [sLog EXCEPT ![p] = sel]
               /\ IF dirOk
                  THEN /\ sPc' = [sPc EXCEPT ![p] = "claim"]
                       /\ UNCHANGED sOut
                  ELSE /\ sPc' = [sPc EXCEPT ![p] = "done"]
                       /\ sOut' = [sOut EXCEPT ![p] =
                                      Returned(FALSE, "no_workspace_directory")]
    /\ UNCHANGED <<concVars, scriptVars, pluginVars, storeVars, resolveVars, runVars, sClaim>>

\* variant: the body is entered whatever the registry answered
SubmitClaimUnchecked(p) ==
    /\ sPc[p] = "claim"
    /\ LET c == SubmitClaimRec(sArgs[p], sNum[p], p) IN
          /\ reg' = ClaimWorkspace(reg, c)
          /\ sLog' = [sLog EXCEPT ![p] = Append(@, Call("claim_workspace", c.num))]
          /\ sClaim' = [sClaim EXCEPT ![p] = [made |-> TRUE, claim |-> c]]
          /\ sPc' = [sPc EXCEPT ![p] = "try"]
          /\ UNCHANGED sOut
    /\ UNCHANGED <<concVars, scriptVars, pluginVars, storeVars, resolveVars, runLocal, sArgs, sNum>>

\* the claim
SubmitClaim(p) ==
    /\ sPc[p] = "claim"
    /\ LET c == SubmitClaimRec(sArgs[p], sNum[p], p)
           claimed == ClaimOk(reg, c.project_file, c.num)
       IN /\ reg' = ClaimWorkspace(reg, c)
          /\ sLog' = [sLog EXCEPT ![p] = Append(@, Call("claim_workspace", c.num))]
          /\ IF claimed
             THEN /\ sClaim' = [sClaim EXCEPT ![p] = [made |-> TRUE, claim |-> c]]
                  /\ sPc' = [sPc EXCEPT ![p] = "try"]
                  /\ UNCHANGED sOut
             ELSE /\ sPc' = [sPc EXCEPT ![p] = "done"]
                  /\ sOut' = [sOut EXCEPT ![p] = Returned(FALSE, "claim_failed")]
                  /\ UNCHANGED sClaim
    /\ UNCHANGED <<concVars, scriptVars, pluginVars, storeVars, resolveVars, runLocal, sArgs, sNum>>

\* the body of the try statement; its outcome is pending until the cleanup
SubmitTry(p, e) ==
    /\ sPc[p] = "try"
    /\ sOut' = [sOut EXCEPT ![p] = SubmitBody(e)]
    /\ sLog' = [sLog EXCEPT ![p] = @ \o SubmitBodyCalls(e)]
    /\ sPc' = [sPc EXCEPT ![p] = "cleanup"]
    /\ UNCHANGED <<concVars, scriptVars, pluginVars, storeVars, resolveVars, runVars, sArgs, sNum, sClaim>>

\* the finally clause, after which ws_submit returns or propagates the error
SubmitCleanup(p) ==
    /\ sPc[p] = "cleanup"
    /\ LET a == sArgs[p] IN
       IF CleanupRuns(sOut[p])
       THEN /\ reg' = ReleaseWorkspace(reg, a.file, sNum[p],
                                       SubmitWorkflowName(a.name))
            /\ sLog' = [sLog EXCEPT ![p] = Append(@,
                           [op |-> "release_workspace", arg |-> sNum[p],
                            project_file |-> a.file,
                            workflow |-> SubmitWorkflowName(a.name),
                            cl_name |-> a.name])]
       ELSE UNCHANGED <<reg, sLog>>
    /\ sPc' = [sPc EXCEPT ![p] = "done"]
    /\ UNCHANGED <<concVars, scriptVars, pluginVars, storeVars, resolveVars, runLocal, sArgs, sNum, sClaim, sOut>>

\* the change records a submission runs against
SubmitChange == <<"c">>
ChildChange == <<"d">>
SubmitNames == {SubmitChange, ChildChange}
ChildStatuses == {"Drafted", "Mailed"} \cup TerminalStatuses

SubmitLists ==
    { <<>>, <<ChangeSpec(SubmitChange, ProjB)>> }
    \cup { <<ChangeSpec(SubmitChange, ProjB),
             ChildSpec(ChildChange, ProjB, SubmitChange, st)>> : st \in ChildStatuses }

\* the arguments of ws_submit, and what detect_workflow_type answers for the file
SubmitArgs ==
    [name : SubmitNames, file : {ProjectFile(ProjB)}, project : {ProjB},
     vcs : {"gh", "hg"}]

SubmitEnvs ==
    [raiseAt : {"none", "get_vcs_provider", "resolve_revision", "checkout",
                "get_default_branch", "merge", "finalize"},
     checkout : BOOLEAN, pr : {"yes", "no"}, username : {EMPTY, ProjA},
     merge : {"ok", "fail", "notfound"}, finalize : BOOLEAN,
     mergeErr : {EMPTY, <<"e", "\n">>}, mergeOut : {EMPTY, <<" ", "o">>}]

InitSubmit ==
    /\ gp \in {RunGp, [x \in {ProjectFile(ProjB)} |-> EMPTY], NoRecords}
    /\ dirs = RunDirs
    /\ cs \in SubmitLists
    /\ reg \in {{}, {OtherClaim(99)}}
    /\ SubmitIdle

NextSubmit ==
    \/ \E a \in SubmitArgs, dirOk \in BOOLEAN : SubmitStart(MainProc, a, dirOk)
    \/ SubmitClaim(MainProc)
    \/ \E e \in SubmitEnvs : SubmitTry(MainProc, e)
    \/ SubmitCleanup(MainProc)

\* concurrent submissions in separate processes
InitSubmitConc ==
    /\ gp = RunGp
    /\ dirs = RunDirs
    /\ cs = <<ChangeSpec(SubmitChange, ProjB), ChangeSpec(ChildChange, ProjB)>>
    /\ reg = {}
    /\ SubmitIdle

\* what the tools answer to concurrent submissions
SubmitConcEnvs ==
    {e \in SubmitEnvs : /\ e.raiseAt \in {"none", "checkout"}
                        /\ e.checkout
                        /\ e.merge \in {"ok", "fail"}
                        /\ e.username = ProjA
                        /\ e.finalize
                        /\ e.mergeErr = EMPTY
                        /\ e.mergeOut = EMPTY}

NextSubmitConc ==
    \E p \in Procs :
        \/ \E a \in {x \in SubmitArgs : x.vcs = "gh"} : SubmitStart(p, a, TRUE)
        \/ SubmitClaim(p)
        \/ \E e \in SubmitConcEnvs : SubmitTry(p, e)
        \/ SubmitCleanup(p)

(***************************************************************************)
(* GitHubPlugin: vcs_mail, vcs_get_change_url, vcs_get_cl_number           *)
(***************************************************************************)
\* what _run reports of a command: success, stdout, stderr
CommandOutput(success, stdout, stderr) ==
    [success |-> success, stdout |-> stdout, stderr |-> stderr]

\* a result pair (ok, value); value is {} when absent, {v} when present
ResultPair(ok, value) == [ok |-> ok, value |-> value]

\* _to_result: success, or failure with the command's name and error text
ToResult(out, cmd) ==
    IF out.success THEN ResultPair(TRUE, {})
    ELSE ResultPair(FALSE, {[cmd |-> cmd, text |-> out.stderr]})

\* variant: a failed query is reported as a failure
VcsGetChangeUrlReportsFailure(out) ==
    IF out.success
    THEN LET url == StripWs(out.stdout) IN
         IF url # EMPTY THEN ResultPair(TRUE, {url}) ELSE ResultPair(TRUE, {})
    ELSE ResultPair(FALSE, {})

\* vcs_get_change_url, given what gh pr view answered
VcsGetChangeUrl(out) ==
    IF out.success
    THEN LET url == StripWs(out.stdout) IN
         IF url # EMPTY THEN ResultPair(TRUE, {url}) ELSE ResultPair(TRUE, {})
    ELSE ResultPair(TRUE, {})

\* vcs_get_cl_number, given what gh pr view answered
VcsGetClNumber(out) ==
    IF out.success
    THEN LET number == StripWs(out.stdout) IN
         IF number # EMPTY THEN ResultPair(TRUE, {number}) ELSE ResultPair(TRUE, {})
    ELSE ResultPair(TRUE, {})

\* variant: the PR is created whatever the PR view answered
MailAlwaysCreates(prCheck) == TRUE

\* vcs_mail creates the PR
MailCreates(prCheck) == ~prCheck.success

S_originUrl ==
    <<"r", "e", "m", "o", "t", "e", ".", "o", "r", "i", "g", "i", "n", ".", "u", "r", "l">>
S_githubCom == <<"g", "i", "t", "h", "u", "b", ".", "c", "o", "m">>

\* Python's `t in s` for strings
HasSubstring(s, t) ==
    \E i \in 1..(Len(s) - Len(t) + 1) : SubSeq(s, i, i + Len(t) - 1) = t

\* how the origin-URL query ended: completed with an exit status and output,
\* or one of the exceptions subprocess.run raised
Completed(returncode, stdout) ==
    [how |-> "completed", returncode |-> returncode, stdout |-> stdout]
Failed(how) == [how |-> how, returncode |-> -1, stdout |-> EMPTY]

\* variant: the exit status of the query is not looked at
VcsClassifyRepoIgnoresExit(q) ==
    IF q.how \in {"timeout", "notfound", "oserror"} THEN {}
    ELSE IF HasSubstring(StripWs(q.stdout), S_githubCom) THEN {"github"}
    ELSE {}

\* vcs_classify_repo: {} for None, {"github"} for the tag
VcsClassifyRepo(q) ==
    IF q.how \in {"timeout", "notfound", "oserror"} THEN {}
    ELSE IF q.returncode # 0 THEN {}
    ELSE IF HasSubstring(StripWs(q.stdout), S_githubCom) THEN {"github"}
    ELSE {}

NoQuery == [fn |-> "none"]

PluginIdle ==
    /\ mPc = "idle"
    /\ mCalls = <<>>
    /\ mAns = <<>>
    /\ mRes = ResultPair(FALSE, {})
    /\ qRes = NoQuery

\* vcs_mail: the push
MailPush(revision, out) ==
    /\ mPc = "idle"
    /\ mCalls' = <<Call("git push", revision)>>
    /\ mAns' = <<out>>
    /\ IF ~out.success
       THEN /\ mRes' = ToResult(out, "git push")
            /\ mPc' = "done"
       ELSE /\ mPc' = "view"
            /\ UNCHANGED mRes
    /\ UNCHANGED <<qRes, storeVars, resolveVars, runVars, submitVars, concVars, scriptVars>>

\* vcs_mail: the PR view
MailView(out) ==
    /\ mPc = "view"
    /\ mCalls' = Append(mCalls, Call("gh pr view", EMPTY))
    /\ mAns' = Append(mAns, out)
    /\ IF MailCreates(out)
       THEN /\ mPc' = "create"
            /\ UNCHANGED mRes
       ELSE /\ mRes' = ResultPair(TRUE, {})
            /\ mPc' = "done"
    /\ UNCHANGED <<qRes, storeVars, resolveVars, runVars, submitVars, concVars, scriptVars>>

\* vcs_mail: the PR create
MailCreate(out) ==
    /\ mPc = "create"
    /\ mCalls' = Append(mCalls, Call("gh pr create", EMPTY))
    /\ mAns' = Append(mAns, out)
    /\ mRes' = IF ~out.success THEN ToResult(out, "gh pr create")
               ELSE ResultPair(TRUE, {})
    /\ mPc' = "done"
    /\ UNCHANGED <<qRes, storeVars, resolveVars, runVars, submitVars, concVars, scriptVars>>

GetChangeUrl(out) ==
    /\ qRes' = [fn |-> "vcs_get_change_url", tool |-> out,
                res |-> VcsGetChangeUrl(out)]
    /\ UNCHANGED <<mPc, mCalls, mAns, mRes, storeVars, resolveVars, runVars,
                   submitVars, concVars, scriptVars>>

GetClNumber(out) ==
    /\ qRes' = [fn |-> "vcs_get_cl_number", tool |-> out,
                res |-> VcsGetClNumber(out)]
    /\ UNCHANGED <<mPc, mCalls, mAns, mRes, storeVars, resolveVars, runVars,
                   submitVars, concVars, scriptVars>>

ClassifyRepo(q) ==
    /\ qRes' = [fn |-> "vcs_classify_repo", tool |-> q,
                calls |-> <<Call("git config", S_originUrl)>>,
                res |-> VcsClassifyRepo(q)]
    /\ UNCHANGED <<mPc, mCalls, mAns, mRes, storeVars, resolveVars, runVars,
                   submitVars, concVars, scriptVars>>

\* what the origin-URL query may do
OriginUrls ==
    {EMPTY,
     S_githubCom \o <<"\n">>,
     <<"g", "@">> \o S_githubCom \o <<":", "a", "\n">>,
     <<"g", "i", "t", "h", "u", "b", ".", "c", "o">>,
     <<"G", "i", "t", "h", "u", "b", ".", "c", "o", "m", "\n">>,
     <<"g", "i", "t", "h", "u", "b", " ", ".", "c", "o", "m">>}
ExitStatuses == {0, 1}
OriginQueries ==
    {Completed(rc, so) : rc \in ExitStatuses, so \in OriginUrls}
    \cup {Failed(how) : how \in {"timeout", "notfound", "oserror"}}

\* what the tools may answer
ToolStdouts ==
    {EMPTY, <<"\n">>, <<" ", "\n">>, <<Ch_VT>>, <<Ch_FS, Ch_NEL, "\t">>,
     <<"4", "2", "\n">>, <<" ", "u", " ">>, <<Ch_NBSP, "u", " ", "v", "\r", Ch_GS>>}
ToolStderrs == {EMPTY, <<"e">>}
QueryOutputs ==
    {CommandOutput(ok, so, se) : ok \in BOOLEAN, so \in ToolStdouts, se \in ToolStderrs}
MailOutputs ==
    {CommandOutput(ok, EMPTY, se) : ok \in BOOLEAN, se \in ToolStderrs}
Revisions == {<<"f">>}

InitPlugin ==
    /\ gp = NoRecords
    /\ dirs = {}
    /\ cs = <<>>
    /\ reg = {}

NextPlugin ==
    \/ \E r \in Revisions, out \in MailOutputs : MailPush(r, out)
    \/ \E out \in MailOutputs : MailView(out)
    \/ \E out \in MailOutputs : MailCreate(out)
    \/ \E out \in QueryOutputs : GetChangeUrl(out)
    \/ \E out \in QueryOutputs : GetClNumber(out)
    \/ \E q \in OriginQueries : ClassifyRepo(q)

(***************************************************************************)
(* resolve_gh_ref in concurrent processes                                  *)
(***************************************************************************)
ConcIdle ==
    /\ cPc = [p \in Procs |-> "idle"]
    /\ cRef = [p \in Procs |-> EMPTY]
    /\ cOut = [p \in Procs |-> NoResult]
    /\ cLoc = [p \in Procs |-> NoResult]

\* references that share the project and differ in the owner
ConcRefs ==
    {ProjA \o <<SEP>> \o ProjB, ProjB \o <<SEP>> \o ProjB,
     ProjA \o <<SEP>> \o ProjB \o <<SEP>>, ProjB, RunChange}

\* nothing recorded and nothing cloned
InitResolveConc ==
    /\ gp = NoRecords
    /\ dirs = {}
    /\ cs = RunCs
    /\ reg = {}

\* resolve_gh_ref is called on its own
ConcCall(p, ref) ==
    /\ ConcEnter(p, ref)
    /\ UNCHANGED <<storeVars, resolveVars, runVars, submitVars, pluginVars,
                   scriptVars>>

NextResolveConc ==
    \E p \in Procs :
        \/ \E ref \in ConcRefs : ConcCall(p, ref)
        \/ RepoPathSteps(p)
        \/ NameSteps(p)

(***************************************************************************)
(* The key=value scripts                                                   *)
(***************************************************************************)
KV(key, value) == [key |-> key, value |-> value]

Scripts == {"new_pr_desc_get_context", "pr_create_changespec", "gh_setup"}

ScriptIdle ==
    /\ kvRun = [script |-> "none"]
    /\ kvSeen = [s \in Scripts |-> {}]
    /\ gPc = [p \in Procs |-> "idle"]
    /\ gArgs = [p \in Procs |-> NoArgs]
    /\ gRes = [p \in Procs |-> NoResult]
    /\ gSel = [p \in Procs |-> NoCtx]

\* the keys of the lines, in the order printed
KeysOf(lines) == [i \in 1..Len(lines) |-> lines[i].key]

\* str.rsplit("/", 1)[-1]
LastComponent(ref) == LET parts == Split(ref) IN parts[Len(parts)]

\* str.replace for single characters
Replace(str, old, new) == [i \in 1..Len(str) |-> IF str[i] = old THEN new ELSE str[i]]

S_noDescription ==
    <<"N", "o", " ", "d", "e", "s", "c", "r", "i", "p", "t", "i", "o", "n">>
S_notFound == <<"n", "o", "t", " ", "f", "o", "u", "n", "d">>
S_notSet == <<"n", "o", "t", " ", "s", "e", "t">>
S_noName == <<"n", "o", " ", "n", "a", "m", "e">>
S_noCommits == <<"n", "o", " ", "c", "o", "m", "m", "i", "t", "s">>
S_true == <<"t", "r", "u", "e">>
S_false == <<"f", "a", "l", "s", "e">>

\* new_pr_desc_get_context.main: the lines printed
NewPrDescGetContext(in) ==
    IF ~in.found
    THEN <<KV("error", S_notFound), KV("description", EMPTY), KV("diff", EMPTY),
           KV("workspace_dir", EMPTY), KV("default_branch", EMPTY),
           KV("branch_name", EMPTY)>>
    ELSE IF in.workspace_dir = EMPTY
    THEN <<KV("error", S_notSet), KV("description", EMPTY), KV("diff", EMPTY),
           KV("workspace_dir", EMPTY), KV("default_branch", EMPTY),
           KV("branch_name", in.name)>>
    ELSE <<KV("error", EMPTY),
           KV("description",
              IF in.description # EMPTY THEN in.description ELSE S_noDescription),
           KV("diff_file", in.tmp),
           KV("commits", IF in.gitOk THEN StripWs(in.log) ELSE EMPTY),
           KV("workspace_dir", in.workspace_dir),
           KV("default_branch", LastComponent(in.branch)),
           KV("branch_name", in.name),
           KV("_chdir", in.workspace_dir)>>

\* pr_create_changespec.main, line 33: the name handed to the host
PrCreateClName(project, name) == project \o <<"_">> \o Replace(name, "-", "_")

\* a value Python takes as true: neither None nor the empty string
Truthy(v) == v # {} /\ v # {EMPTY}

\* pr_create_changespec.main: the lines printed; create is the host's
\* create_changespec_for_workflow, from the name given to the name returned
PrCreateChangespec(in) ==
    LET result == in.create[PrCreateClName(in.project, in.name)]
        project_file == ProjectFile(in.project)
        default_branch == LastComponent(in.branch)
    IN IF in.project = EMPTY
       THEN <<KV("success", S_false), KV("error", S_noName), KV("cl_name", EMPTY),
              KV("project_file", EMPTY), KV("default_branch", EMPTY)>>
       ELSE IF Truthy(result)
       THEN <<KV("success", S_true), KV("cl_name", TextOf(result)),
              KV("project_file", project_file),
              KV("default_branch", default_branch),
              KV("meta_changespec", TextOf(result)), KV("error", EMPTY)>>
       ELSE <<KV("success", S_false), KV("cl_name", EMPTY),
              KV("project_file", project_file),
              KV("default_branch", default_branch),
              KV("error", S_noCommits)>>

\* gh_setup.main: the lines printed once the reference is resolved
GhSetup(a, resolved, sel) ==
    <<KV("project_name", resolved.project_name),
      KV("project_file", resolved.project_file),
      KV("workspace_dir", sel.dir),
      KV("workspace_num", DecStr(sel.num)),
      KV("checkout_target", resolved.checkout_target),
      KV("primary_workspace_dir", resolved.primary_workspace_dir),
      KV("should_release", IF a.release THEN S_true ELSE S_false),
      KV("_chdir", sel.dir),
      KV("meta_workspace", DecStr(sel.num))>>

\* a script returned after printing these lines
ScriptReturned(script, lines) ==
    /\ kvRun' = [script |-> script, kind |-> "returned", lines |-> lines]
    /\ kvSeen' = [kvSeen EXCEPT ![script] = @ \cup {KeysOf(lines)}]

RunNewPrDesc(in) ==
    /\ ScriptReturned("new_pr_desc_get_context", NewPrDescGetContext(in))
    /\ UNCHANGED <<ghVars, storeVars, resolveVars, runVars, submitVars, pluginVars, concVars>>

RunPrCreate(in) ==
    /\ ScriptReturned("pr_create_changespec", PrCreateChangespec(in))
    /\ UNCHANGED <<ghVars, storeVars, resolveVars, runVars, submitVars, pluginVars, concVars>>

\* gh_setup.main, line 18: resolve_ref is called
GhSetupResolve(p, a) ==
    /\ gPc[p] = "idle"
    /\ ConcEnter(p, a.ref)
    /\ gArgs' = [gArgs EXCEPT ![p] = a]
    /\ gPc' = [gPc EXCEPT ![p] = "resolve"]
    /\ UNCHANGED <<storeVars, reg, kvRun, kvSeen, gRes, gSel, runLocal,
                   resolveVars, submitVars, pluginVars>>

\* gh_setup.main, line 18: resolve_ref returns; an error leaves the script
GhSetupResolved(p) ==
    /\ gPc[p] = "resolve"
    /\ cPc[p] = "done"
    /\ IF cOut[p].kind # "ok"
       THEN /\ kvRun' = [script |-> "gh_setup", kind |-> "raised",
                         lines |-> <<>>]
            /\ gPc' = [gPc EXCEPT ![p] = "done"]
            /\ UNCHANGED gRes
       ELSE /\ gRes' = [gRes EXCEPT ![p] = cOut[p]]
            /\ gPc' = [gPc EXCEPT ![p] = "select"]
            /\ UNCHANGED kvRun
    /\ UNCHANGED <<storeVars, reg, kvSeen, gArgs, gSel, runLocal, resolveVars,
                   submitVars, pluginVars, concVars>>

\* gh_setup.main, lines 24-32: the slot is taken from the environment, from
\* the argument, or read from the registry
GhSetupSelect(p) ==
    /\ gPc[p] = "select"
    /\ LET sel == SelectSlot(gArgs[p], reg, gRes[p]) IN
       IF sel.raised
       THEN /\ kvRun' = [script |-> "gh_setup", kind |-> "raised",
                         lines |-> <<>>]
            /\ gPc' = [gPc EXCEPT ![p] = "done"]
            /\ UNCHANGED gSel
       ELSE /\ gSel' = [gSel EXCEPT ![p] = sel]
            /\ gPc' = [gPc EXCEPT ![p] = "claim"]
            /\ UNCHANGED kvRun
    /\ UNCHANGED <<storeVars, reg, kvSeen, gArgs, gRes, runLocal,
                   resolveVars, submitVars, pluginVars, concVars>>

\* gh_setup.main, lines 34-53: claim_workspace, its answer unread, then the
\* lines are printed
GhSetupClaim(p) ==
    /\ gPc[p] = "claim"
    /\ LET ctx == RunnerContext(gArgs[p], gRes[p], gSel[p]) IN
       reg' = ClaimWorkspace(reg, AllocClaim(gArgs[p], ctx, p))
    /\ ScriptReturned("gh_setup", GhSetup(gArgs[p], gRes[p], gSel[p]))
    /\ gPc' = [gPc EXCEPT ![p] = "done"]
    /\ UNCHANGED <<storeVars, gArgs, gRes, gSel, runLocal, resolveVars,
                   submitVars, pluginVars, concVars>>

\* what the scripts are given and find
ScriptName == <<"a", "-", "b">>
NewPrDescInputs ==
    [found : BOOLEAN, name : {ScriptName}, workspace_dir : {EMPTY, <<"/", "w">>},
     description : {EMPTY, <<"d">>}, tmp : {<<"/", "t">>}, gitOk : BOOLEAN,
     log : {<<"s", "\n">>}, branch : DefaultBranches]
\* what create_changespec_for_workflow may return for a name: nothing, the
\* empty string, the name itself or another name
CreateAnswers ==
    LET given == {PrCreateClName(ProjB, ScriptName), PrCreateClName(EMPTY, ScriptName)} IN
    {[n \in given |-> {}], [n \in given |-> {EMPTY}], [n \in given |-> {n}],
     [n \in given |-> {n \o <<"_", "1">>}]}
PrCreateInputs ==
    [project : {EMPTY, ProjB}, name : {ScriptName}, create : CreateAnswers,
     branch : DefaultBranches]
GhSetupArgs ==
    {a \in PlainRunArgs :
        /\ a.ref \in {ProjB, RunChange, <<"a", "a">>}
        /\ a.n \subseteq {99}}

InitScripts ==
    /\ RunStore
    /\ reg = {}

NextScripts ==
    \/ \E in \in NewPrDescInputs : RunNewPrDesc(in)
    \/ \E in \in PrCreateInputs : RunPrCreate(in)
    \/ \E a \in GhSetupArgs : GhSetupResolve(MainProc, a)
    \/ NameSteps(MainProc)
    \/ GhSetupResolved(MainProc)
    \/ GhSetupSelect(MainProc)
    \/ GhSetupClaim(MainProc)

\* gh_setup in concurrent processes
NextGhSetupConc ==
    \E p \in Procs :
        \/ \E a \in GhSetupArgs : GhSetupResolve(p, a)
        \/ NameSteps(p)
        \/ GhSetupResolved(p)
        \/ GhSetupSelect(p)
        \/ GhSetupClaim(p)

(***************************************************************************)
(* Specifications                                                          *)
(***************************************************************************)
vars == <<storeVars, resolveVars, runVars, submitVars, pluginVars, concVars, scriptVars>>

\* the state before one resolution of any reference
StartResolveOnce ==
    /\ InitResolveOnce
    /\ reg = {}
    /\ RunIdle
    /\ SubmitIdle
    /\ PluginIdle
    /\ ConcIdle
    /\ ScriptIdle

SpecResolveOnce == StartResolveOnce /\ [][NextResolveOnce]_vars

\* the state before a sequence of resolutions
StartResolveSeq ==
    /\ InitResolveSeq
    /\ reg = {}
    /\ RunIdle
    /\ SubmitIdle
    /\ PluginIdle
    /\ ConcIdle
    /\ ScriptIdle

SpecResolveSeq == StartResolveSeq /\ [][NextResolveSeq]_vars

\* the state before resolutions of references without a separator
StartResolveName ==
    /\ InitResolveName
    /\ reg = {}
    /\ RunIdle
    /\ SubmitIdle
    /\ PluginIdle
    /\ ConcIdle
    /\ ScriptIdle

SpecResolveName == StartResolveName /\ [][NextResolveName]_vars

\* the state before concurrent resolutions
StartResolveConc ==
    /\ InitResolveConc
    /\ ResolveIdle
    /\ RunIdle
    /\ SubmitIdle
    /\ PluginIdle
    /\ ConcIdle
    /\ ScriptIdle

SpecResolveConc == StartResolveConc /\ [][NextResolveConc]_vars

\* the state before the scripts run
StartScripts ==
    /\ InitScripts
    /\ ResolveIdle
    /\ RunIdle
    /\ SubmitIdle
    /\ PluginIdle
    /\ ConcIdle
    /\ ScriptIdle

SpecScripts == StartScripts /\ [][NextScripts]_vars

SpecGhSetupConc == StartScripts /\ [][NextGhSetupConc]_vars

\* the state before the plugin's calls
StartPlugin ==
    /\ InitPlugin
    /\ ResolveIdle
    /\ RunIdle
    /\ SubmitIdle
    /\ PluginIdle
    /\ ConcIdle
    /\ ScriptIdle

SpecPlugin == StartPlugin /\ [][NextPlugin]_vars

\* the state before a run made alone
StartRun ==
    /\ InitRun
    /\ ResolveIdle
    /\ SubmitIdle
    /\ PluginIdle
    /\ ConcIdle
    /\ ScriptIdle

SpecRun == StartRun /\ [][NextRun]_vars

\* the state before concurrent runs
StartRunConc ==
    /\ InitRunConc
    /\ ResolveIdle
    /\ SubmitIdle
    /\ PluginIdle
    /\ ConcIdle
    /\ ScriptIdle

SpecRunConc == StartRunConc /\ [][NextRunConc]_vars

\* the state before a submission made alone
StartSubmit ==
    /\ InitSubmit
    /\ ResolveIdle
    /\ RunIdle
    /\ PluginIdle
    /\ ConcIdle
    /\ ScriptIdle

SpecSubmit == StartSubmit /\ [][NextSubmit]_vars

\* the state before concurrent submissions
StartSubmitConc ==
    /\ InitSubmitConc
    /\ ResolveIdle
    /\ RunIdle
    /\ PluginIdle
    /\ ConcIdle
    /\ ScriptIdle

SpecSubmitConc == StartSubmitConc /\ [][NextSubmitConc]_vars

(***************************************************************************)
(* Properties of resolve_gh_ref                                            *)
(***************************************************************************)
SepIdx(s) == {i \in 1..Len(s) : s[i] = SEP}
NameIdx(s) == {i \in 1..Len(s) : s[i] # SEP}

\* separators with a name character somewhere before and somewhere after
InnerSeps(s) ==
    {i \in SepIdx(s) : (\E j \in NameIdx(s) : j < i) /\ (\E j \in NameIdx(s) : j > i)}

\* the reference as written is owner/project: one separator, not first or last
TwoComponentsAsWritten(s) ==
    Cardinality(SepIdx(s)) = 1 /\ s[1] # SEP /\ s[Len(s)] # SEP

\* the reference is owner/project once leading and trailing separators are dropped
TwoComponentsStripped(s) == Cardinality(InnerSeps(s)) = 1

RepoPathKinds == {"ok", "conflict", "clone_failed"}

RejectedAsInvalid ==
    /\ rsOut = Failure("invalid_repo_path", rsRef, EMPTY)
    /\ rsCalls = <<>>
    /\ gp = rsPrev.gp
    /\ dirs = rsPrev.dirs

ProceededAsRepoPath ==
    /\ rsOut.kind \in RepoPathKinds
    /\ rsRepo # EMPTY
    /\ rsCalls # <<>>
    /\ rsCalls[1].op = "parse_workspace_dir"

\* C10 as stated: a reference with a separator proceeds as a repository path
\* only if, as written, it is exactly two non-empty components; every other
\* one (leading or trailing separator included) is rejected as invalid.
C10_AsWritten ==
    (rsN = 1 /\ Contains(rsRef, SEP)) =>
        IF TwoComponentsAsWritten(rsRef) THEN ProceededAsRepoPath
        ELSE RejectedAsInvalid

\* C10 amended: a reference with a separator proceeds as a repository path
\* exactly when it is two components after its leading and trailing
\* separators are dropped; every other one is rejected with the
\* 'expected user/project' error naming the reference, without any lookup
\* (so it is never tried as a shorthand or a change name).
C10_SplitAfterStrip ==
    (rsN = 1 /\ Contains(rsRef, SEP)) =>
        IF TwoComponentsStripped(rsRef) THEN ProceededAsRepoPath
        ELSE RejectedAsInvalid

\* a reference with a leading separator was resolved as owner/project
C10_Witness ==
    /\ rsN = 1
    /\ rsRef[1] = SEP
    /\ rsOut.kind = "ok"

\* C9: a repository-path resolution whose project record holds a directory
\* that differs after normalisation from the derived one fails with a
\* conflict error naming both paths, and changes nothing: no clone, no
\* set_workspace_dir, no default-branch query.
C9_ConflictChangesNothing ==
    (rsN = 1 /\ Contains(rsRef, SEP) /\ TwoComponentsStripped(rsRef)) =>
        LET parts == Split(Strip(rsRef))
            derived == PrimaryWorkspaceDir(parts[1], parts[2])
            existing == ParseWorkspaceDir(rsPrev.gp, ProjectFile(parts[2]))
        IN (existing # EMPTY /\ NormPath(existing) # NormPath(derived)) =>
            /\ rsOut = Failure("conflict", existing, derived)
            /\ gp = rsPrev.gp
            /\ dirs = rsPrev.dirs
            /\ \A i \in 1..Len(rsCalls) :
                   rsCalls[i].op \notin {"clone", "set_workspace_dir", "get_default_branch"}

C9_Witness ==
    /\ rsN = 1
    /\ rsOut.kind = "conflict"
    /\ rsOut.a = RStrip(PrimaryWorkspaceDir(ProjA, ProjB))
    /\ rsOut.b = PrimaryWorkspaceDir(ProjB, ProjB)

\* the last resolution was a repository-path resolution of a project whose
\* record already held a directory
LaterRepoResolution == rsRepo # EMPTY /\ ParseWorkspaceDir(rsPrev.gp, rsRepo) # EMPTY

\* C8 as stated: once a resolution has persisted a directory, every later
\* repository-path resolution of the same project returns that same
\* primary_workspace_dir or fails with a conflict error, and the recorded
\* directory is not replaced by a different one.
C8_SameOrConflict ==
    LaterRepoResolution =>
        /\ \/ rsOut.kind = "ok" /\ rsOut.primary_workspace_dir = rsPrev.gp[rsRepo]
           \/ rsOut.kind = "conflict"
        /\ gp[rsRepo] = rsPrev.gp[rsRepo]

\* C8 amended: the statement holds as written for every project component
\* other than ".."; for ".." (where every owner derives the same normalised
\* directory) a later resolution returns a directory equal to the recorded
\* one after normalisation, or fails, with a conflict error whenever the
\* derived directory differs after normalisation; the recorded directory is
\* never replaced by one that differs after normalisation.
C8_SameUpToNormalisation ==
    LaterRepoResolution =>
        LET recorded == rsPrev.gp[rsRepo] IN
        /\ rsRepo # ProjectFile(DOTDOT) =>
              /\ \/ rsOut.kind = "ok" /\ rsOut.primary_workspace_dir = recorded
                 \/ rsOut.kind = "conflict"
              /\ gp[rsRepo] = recorded
        /\ rsOut.kind \in RepoPathKinds
        /\ rsOut.kind = "ok" =>
              NormPath(rsOut.primary_workspace_dir) = NormPath(recorded)
        /\ rsOut.kind = "clone_failed" => gp[rsRepo] = recorded
        /\ rsOut.kind = "conflict" =>
              rsOut.a = recorded /\ NormPath(rsOut.b) # NormPath(recorded)
        /\ NormPath(gp[rsRepo]) = NormPath(recorded)

\* a second owner was refused for a project the first owner had persisted
C8_Witness ==
    /\ rsN = 2
    /\ LaterRepoResolution
    /\ rsPrev.gp[rsRepo] = PrimaryWorkspaceDir(ProjA, ProjB)
    /\ rsOut = Failure("conflict", PrimaryWorkspaceDir(ProjA, ProjB),
                       PrimaryWorkspaceDir(ProjB, ProjB))

(***************************************************************************)
(* Properties of the run lifecycle                                         *)
(***************************************************************************)
\* a context has been handed out by allocate_gh_workspace and post_agent
\* has not yet returned
InFlight(p) == rPc[p] \in {"prepare", "agent", "post"}

\* the release_workspace calls a process has made
Releases(p) ==
    {i \in 1..Len(rLog[p]) : rLog[p][i].op = "release_workspace"}

\* post_agent has been entered
PostAgentEntered(p) == rPc[p] = "post" \/ (rPc[p] = "done" /\ rGit[p] # NoGit)

\* post_agent has returned a result
PostAgentReturned(p) == rPc[p] = "done" /\ rOut[p].kind = "ok"

\* C2 (as stated): no two contexts in flight at the same time carry the same
\* (project_file, workspace_num) pair
C2_DistinctSlotsInFlight ==
    \A p, q \in Procs :
        (p # q /\ InFlight(p) /\ InFlight(q)
         /\ rCtx[p].project_file = rCtx[q].project_file)
        => rCtx[p].workspace_num # rCtx[q].workspace_num

\* C3 (as stated): when the claim attempt is refused, the run ends with an
\* allocation failure and no context is handed to the caller
C3_RefusedClaimFails ==
    \A p \in Procs :
        (rClaim[p].called /\ ~rClaim[p].claimed)
        => (rPc[p] = "done" /\ rOut[p].kind = "alloc_failed")

\* C5: once post_agent has been entered it has called release_workspace
\* exactly once when the context's should_release is true and not at all when
\* it is false, whatever git answers afterwards; before that no release is made
C5_ReleaseOnceIffShouldRelease ==
    \A p \in Procs :
        Cardinality(Releases(p)) =
            IF PostAgentEntered(p) /\ rCtx[p].should_release THEN 1 ELSE 0

C5_Witness ==
    /\ rPc[MainProc] = "done"
    /\ rOut[MainProc].kind = "raised"
    /\ rGit[MainProc] # NoGit
    /\ rCtx[MainProc].should_release
    /\ Cardinality(Releases(MainProc)) = 1

\* C6 (as stated): the release names the project file, the slot number and
\* the workflow tag of the claim made by allocate_gh_workspace
C6_ReleaseNamesTheClaim ==
    \A p \in Procs : \A i \in Releases(p) :
        /\ rLog[p][i].project_file = rClaim[p].claim.project_file
        /\ rLog[p][i].arg = rClaim[p].claim.num
        /\ rLog[p][i].workflow = rClaim[p].claim.workflow

\* a string is the canonical decimal numeral of n: a minus sign for a
\* negative number, then digits without a leading zero
IsNumeralOf(str, n) ==
    /\ str # EMPTY
    /\ (n < 0) <=> (str[1] = "-")
    /\ LET body == IF n < 0 THEN Tail(str) ELSE str IN
        /\ body # EMPTY
        /\ \A i \in 1..Len(body) : IsDigit(body[i])
        /\ Len(body) > 1 => body[1] # "0"
    /\ ParseInt(str) = {n}

\* t is s without the whitespace at its two ends
IsTrimOf(t, s) ==
    /\ t # EMPTY => ~IsSpace(t[1]) /\ ~IsSpace(t[Len(t)])
    /\ \E i \in 1..(Len(s) + 1) :
        /\ i + Len(t) - 1 <= Len(s)
        /\ t = SubSeq(s, i, i + Len(t) - 1)
        /\ \A k \in 1..Len(s) : (k < i \/ k >= i + Len(t)) => IsSpace(s[k])

\* s holds a character that is not whitespace
NonBlank(s) == \E k \in 1..Len(s) : ~IsSpace(s[k])

\* the head was re-read after the run and is not the one recorded before it
HeadReadAndDiffers(p) ==
    /\ rCtx[p].head_before # EMPTY
    /\ rGit[p].revParse # GitFailed
    /\ ~IsTrimOf(rCtx[p].head_before, rGit[p].revParse)

\* C7: when post_agent returns, meta has meta_workspace, the decimal numeral
\* of the context's workspace_num, and has meta_commit_message exactly when
\* the head read after the run differs from head_before and the newest
\* commit's subject is non-empty; meta has no other key
C7_MetaOfPostAgent ==
    \A p \in Procs :
        PostAgentReturned(p) =>
            LET m == rOut[p].meta
            IN /\ "meta_workspace" \in DOMAIN m
               /\ DOMAIN m \subseteq {"meta_workspace", "meta_commit_message"}
               /\ IsNumeralOf(m["meta_workspace"], rCtx[p].workspace_num)
               /\ "meta_commit_message" \in DOMAIN m
                      <=> (HeadReadAndDiffers(p) /\ rGit[p].log # GitFailed
                           /\ NonBlank(rGit[p].log))
               /\ "meta_commit_message" \in DOMAIN m
                      => IsTrimOf(m["meta_commit_message"], rGit[p].log)

\* a subject and a head printed with whitespace other than space and newline
C7_Witness ==
    /\ PostAgentReturned(MainProc)
    /\ "meta_commit_message" \in DOMAIN rOut[MainProc].meta
    /\ rGit[MainProc].log = <<Ch_NBSP, "a", Ch_US>>
    /\ rOut[MainProc].meta["meta_commit_message"] = <<"a">>
    /\ rGit[MainProc].revParse[1] = Ch_RS
    /\ rCtx[MainProc].workspace_num = 100

(***************************************************************************)
(* Properties of ws_submit                                                 *)
(***************************************************************************)
\* the release_workspace calls a submission has made
SubmitReleases(p) ==
    {i \in 1..Len(sLog[p]) : sLog[p][i].op = "release_workspace"}

\* the registry operations a submission has made
RegistryOps(p) ==
    {i \in 1..Len(sLog[p]) :
        sLog[p][i].op \in {"get_first_available_axe_workspace", "claim_workspace",
                           "release_workspace"}}

\* ws_submit has returned or has propagated an error
SubmitEnded(p) == sPc[p] = "done"

\* C1: a submission whose claim was accepted has called release_workspace
\* exactly once when ws_submit ends, however the body ended, with the project
\* file, slot, workflow name submit-<change name> and change name of the
\* claim; no submission ever releases twice or without an accepted claim
C1_ReleaseOnceAfterClaim ==
    \A p \in Procs :
        /\ Cardinality(SubmitReleases(p)) <= 1
        /\ SubmitReleases(p) # {} => sClaim[p].made
        /\ (sClaim[p].made /\ SubmitEnded(p)) =>
              /\ Cardinality(SubmitReleases(p)) = 1
              /\ \A i \in SubmitReleases(p) :
                    /\ sLog[p][i].project_file = sClaim[p].claim.project_file
                    /\ sLog[p][i].arg = sClaim[p].claim.num
                    /\ sLog[p][i].workflow = sClaim[p].claim.workflow
                    /\ sLog[p][i].workflow = S_submit \o sArgs[p].name
                    /\ sLog[p][i].cl_name = sClaim[p].claim.cl_name
                    /\ sLog[p][i].cl_name = sArgs[p].name

C1_Witness ==
    /\ SubmitEnded(MainProc)
    /\ sClaim[MainProc].made
    /\ sOut[MainProc].kind = "raised"
    /\ Cardinality(SubmitReleases(MainProc)) = 1

\* the preconditions of a submission, read off the stores
NotGitHubWorkflow(p) == sArgs[p].vcs # "gh"

ChangeNotFound(p) == \A i \in 1..Len(cs) : cs[i].name # sArgs[p].name

HasLiveChild(p) ==
    \E i \in 1..Len(cs) :
        /\ cs[i].parent = sArgs[p].name
        /\ cs[i].status \notin {"Submitted", "Reverted", "Archived"}

NoRecordedWorkspaceDir(p) ==
    sArgs[p].file \notin DOMAIN gp \/ gp[sArgs[p].file] = EMPTY

PreconditionFails(p) ==
    \/ NotGitHubWorkflow(p)
    \/ ChangeNotFound(p)
    \/ HasLiveChild(p)
    \/ NoRecordedWorkspaceDir(p)

\* C4: a submission whose preconditions fail has ended without any registry
\* operation: no slot was selected, none claimed, none released, and the
\* registry is as it was
C4_NoRegistryOpOnPreconditionFailure ==
    \A p \in Procs :
        (sPc[p] # "idle" /\ PreconditionFails(p)) =>
            /\ SubmitEnded(p)
            /\ RegistryOps(p) = {}
            /\ sNum[p] = -1
            /\ ~sClaim[p].made
            /\ sOut[p].kind = "returned" => ~sOut[p].ok

C4_Witness ==
    /\ SubmitEnded(MainProc)
    /\ ~NotGitHubWorkflow(MainProc)
    /\ ~ChangeNotFound(MainProc)
    /\ HasLiveChild(MainProc)
    /\ sOut[MainProc] = Returned(FALSE, "active_children")
    /\ RegistryOps(MainProc) = {}

(***************************************************************************)
(* Properties of resolve_gh_ref: the clone                                 *)
(***************************************************************************)
CallsOf(op) == {i \in 1..Len(rsCalls) : rsCalls[i].op = op}

\* the last resolution was a well-formed owner/project reference whose
\* project record did not contradict the derived directory
PastConflictCheck ==
    /\ Contains(rsRef, SEP)
    /\ TwoComponentsStripped(rsRef)
    /\ LET parts == Split(Strip(rsRef))
           derived == PrimaryWorkspaceDir(parts[1], parts[2])
           existing == ParseWorkspaceDir(rsPrev.gp, ProjectFile(parts[2]))
       IN existing = EMPTY \/ NormPath(existing) = NormPath(derived)

\* the directory the last resolution derived, without its trailing separator
DerivedTarget ==
    LET parts == Split(Strip(rsRef)) IN
    RStrip(PrimaryWorkspaceDir(parts[1], parts[2]))

\* the URL the last resolution clones from
DerivedUrl ==
    LET parts == Split(Strip(rsRef)) IN
    CloneUrl(rsEnv.ghUser, parts[1], parts[2])

\* C11: a resolution starts git clone at most once, and before any
\* set_workspace_dir; a repository-path resolution that got past the conflict
\* check starts it exactly when the derived directory was absent, any other
\* resolution never; when git refuses, the resolution fails with git's
\* stripped error output, set_workspace_dir is not called and the project
\* records are as before
C11_CloneIffAbsent ==
    rsN = 1 =>
        /\ Cardinality(CallsOf("clone")) <= 1
        /\ \A i \in CallsOf("clone"), j \in CallsOf("set_workspace_dir") : i < j
        /\ ~PastConflictCheck => CallsOf("clone") = {}
        /\ PastConflictCheck =>
              LET absent == ~(Ancestors(DerivedTarget) \subseteq rsPrev.dirs) IN
              /\ CallsOf("clone") # {} <=> absent
              /\ ~absent => rsOut.kind = "ok"
              /\ rsOut.kind \in {"ok", "clone_failed"}
              /\ (absent /\ rsEnv.clone # "ok") => rsOut.kind = "clone_failed"
              /\ rsOut.kind = "ok" =>
                    /\ Cardinality(CallsOf("set_workspace_dir")) = 1
                    /\ Ancestors(DerivedTarget) \subseteq dirs
              /\ rsOut.kind = "clone_failed" =>
                    /\ absent
                    /\ rsOut.a = DerivedUrl
                    /\ rsOut.b = IF rsEnv.clone = "fail_quiet" THEN EMPTY
                                 ELSE <<"e">>
                    /\ CallsOf("set_workspace_dir") = {}
                    /\ gp = rsPrev.gp

C11_Witness ==
    /\ rsN = 1
    /\ rsOut.kind = "clone_failed"
    /\ rsOut.b = <<"e">>
    /\ rsEnv.clone = "fail"
    /\ Cardinality(CallsOf("clone")) = 1
    /\ gp = rsPrev.gp

(***************************************************************************)
(* Properties of resolve_gh_ref: shorthand and change name                 *)
(***************************************************************************)
\* the change records named like the last reference, and the first of them
NameMatches == {i \in 1..Len(cs) : cs[i].name = rsRef}

FirstMatch == cs[CHOOSE i \in NameMatches : \A j \in NameMatches : i <= j]

\* the project file the last reference names as a shorthand
ShorthandFile == ProjectsBase \o <<SEP>> \o rsRef \o <<SEP>> \o rsRef \o S_gp

\* the last reference named a project record, and what the record held
ShorthandRecordExists == rsRef \notin {EMPTY, DOT} /\ ShorthandFile \in DOMAIN rsPrev.gp

ShorthandRecordSet ==
    ShorthandRecordExists /\ rsPrev.gp[ShorthandFile] # EMPTY

\* what the named-change search must answer for the last reference
NamedChangeOutcome ==
    IF NameMatches = {} THEN rsOut = Failure("cannot_resolve", rsRef, EMPTY)
    ELSE LET c == FirstMatch
             wd == IF c.file_path \in DOMAIN rsPrev.gp
                   THEN rsPrev.gp[c.file_path] ELSE EMPTY
         IN IF wd # EMPTY
            THEN rsOut = [kind |-> "ok", project_file |-> c.file_path,
                          project_name |-> c.project_basename,
                          primary_workspace_dir |-> wd,
                          checkout_target |-> <<"o", "r", "i", "g", "i", "n", "/">>
                                              \o rsRef]
            ELSE rsOut = Failure("workspace_dir_not_set", rsRef, c.file_path)

\* C12: a reference without a separator whose project record exists but
\* holds no workspace directory is not refused at the shorthand step: the
\* outcome is that of the named-change search (decided by the change record
\* of that name when there is one, 'cannot resolve' when there is none), and
\* the default branch is not queried
C12_UnsetShorthandFallsThrough ==
    (rsN >= 1 /\ ~Contains(rsRef, SEP) /\ ShorthandRecordExists
     /\ ~ShorthandRecordSet) =>
        /\ NamedChangeOutcome
        /\ CallsOf("get_default_branch") = {}
        /\ gp = rsPrev.gp

C12_Witness ==
    /\ rsN >= 1
    /\ rsRef = ProjB
    /\ ShorthandRecordExists
    /\ ~ShorthandRecordSet
    /\ rsOut.kind = "ok"
    /\ rsOut.project_name = ProjA
    /\ rsOut.checkout_target = <<"o", "r", "i", "g", "i", "n", "/", "b">>

\* the shorthand answer for the last reference
ShorthandOutcome ==
    rsOut = [kind |-> "ok", project_file |-> ShorthandFile,
             project_name |-> rsRef,
             primary_workspace_dir |-> rsPrev.gp[ShorthandFile],
             checkout_target |-> rsEnv.branch]

\* C13: every resolution of a reference without a separator that names a
\* project record holding a directory returns the shorthand answer
\* (checkout_target the default branch), also when a change record carries
\* the same name, and every other one returns what the named-change search
\* gives, so the outcome is fixed by the reference, the stores and the default
\* branch; and a resolution repeated with the same reference against
\* the same stores and the same default branch returns the same outcome,
\* whatever git clone would have done and whoever the configured user is,
\* and leaves the stores as they were
C13_ShorthandBeforeChangeName ==
    [][ /\ (~Contains(rsRef', SEP) /\ ShorthandRecordSet') => ShorthandOutcome'
        /\ (~Contains(rsRef', SEP) /\ ~ShorthandRecordSet') => NamedChangeOutcome'
        /\ (rsN >= 1 /\ rsRef' = rsRef /\ rsEnv'.branch = rsEnv.branch
            /\ rsPrev.gp = gp /\ rsPrev.dirs = dirs)
               => /\ rsOut' = rsOut
                  /\ gp' = gp
                  /\ dirs' = dirs ]_vars

C13_Witness ==
    /\ rsN = 2
    /\ rsRef = ProjB
    /\ rsEnv.clone = "fail"
    /\ ShorthandRecordSet
    /\ NameMatches # {}
    /\ rsOut.kind = "ok"
    /\ rsOut.checkout_target = rsEnv.branch

\* C14: when the named-change search is reached and a change record carries
\* the name, the first such record decides: with a directory recorded in its
\* project file the result names that file, the record's project basename,
\* that directory and origin/<ref>; without one the resolution fails with
\* the 'WORKSPACE_DIR is not set' error naming that file, whatever later
\* records hold
C14_FirstNamedChangeDecides ==
    (rsN >= 1 /\ ~Contains(rsRef, SEP) /\ ~ShorthandRecordSet
     /\ NameMatches # {}) =>
        /\ NamedChangeOutcome
        /\ rsOut.kind \in {"ok", "workspace_dir_not_set"}
        /\ rsOut.kind = "ok" => rsOut.checkout_target \notin DefaultBranches
        /\ Cardinality(CallsOf("parse_workspace_dir"))
               = IF ShorthandRecordExists THEN 2 ELSE 1

\* the first record of the name has no directory while a later one has
C14_Witness ==
    /\ rsN >= 1
    /\ rsRef = <<"a", "b">>
    /\ Cardinality(NameMatches) = 2
    /\ rsOut = Failure("workspace_dir_not_set", rsRef, ProjectFile(ProjA))
    /\ ParseWorkspaceDir(gp, ProjectFile(ProjB)) # EMPTY

\* C15 (as stated): every ResolvedRef has a primary_workspace_dir that ends
\* in a path separator
C15_TrailingSeparator ==
    rsOut.kind = "ok" =>
        /\ rsOut.primary_workspace_dir # EMPTY
        /\ rsOut.primary_workspace_dir[Len(rsOut.primary_workspace_dir)] = SEP

(***************************************************************************)
(* vcs_mail and the PR queries                                             *)
(***************************************************************************)
MailOrder == <<"git push", "gh pr view", "gh pr create">>

\* C16: vcs_mail calls push, PR view, PR create in that order, each at most
\* once; the PR view runs only after a successful push and the PR create only
\* after a failed PR view; a failed push ends with one call and a failure that
\* carries the push error, an existing PR ends with two calls and success, a
\* missing PR ends with three calls and success iff the create succeeded.
C16_MailCallOrder ==
    /\ Len(mCalls) <= Len(MailOrder)
    /\ Len(mAns) = Len(mCalls)
    /\ \A i \in 1..Len(mCalls) : mCalls[i].op = MailOrder[i]
    /\ Len(mCalls) >= 2 => mAns[1].success
    /\ Len(mCalls) >= 3 => ~mAns[2].success
    /\ mPc = "done" =>
        /\ Len(mCalls) >= 1
        /\ ~mAns[1].success =>
            /\ Len(mCalls) = 1
            /\ ~mRes.ok
            /\ mRes.value = {[cmd |-> "git push", text |-> mAns[1].stderr]}
        /\ mAns[1].success =>
            /\ Len(mCalls) >= 2
            /\ mAns[2].success => Len(mCalls) = 2 /\ mRes = ResultPair(TRUE, {})
            /\ ~mAns[2].success =>
                /\ Len(mCalls) = 3
                /\ mRes.ok <=> mAns[3].success

\* a mail that pushed, found no PR and created one
C16_Witness ==
    /\ mPc = "done"
    /\ Len(mCalls) = 3
    /\ mCalls[3].op = "gh pr create"
    /\ mRes.ok

\* C17: vcs_get_change_url and vcs_get_cl_number always return ok = true; the
\* value is the trimmed tool output when the query succeeded with non-blank
\* output and is absent when the tool failed or its output was blank.
C17_QueryAlwaysOk ==
    qRes.fn \in {"vcs_get_change_url", "vcs_get_cl_number"} =>
        /\ qRes.res.ok
        /\ (qRes.tool.success /\ NonBlank(qRes.tool.stdout))
               => /\ Cardinality(qRes.res.value) = 1
                  /\ \A v \in qRes.res.value : IsTrimOf(v, qRes.tool.stdout)
        /\ ~(qRes.tool.success /\ NonBlank(qRes.tool.stdout))
               => qRes.res.value = {}

\* a query that succeeded with output padded by whitespace of several kinds
C17_Witness ==
    /\ qRes.fn = "vcs_get_change_url"
    /\ qRes.tool.success
    /\ qRes.tool.stdout = <<Ch_NBSP, "u", " ", "v", "\r", Ch_GS>>
    /\ qRes.res = ResultPair(TRUE, {<<"u", " ", "v">>})

(***************************************************************************)
(* allocate_gh_workspace: the claim and the slot selection                 *)
(***************************************************************************)
\* the calls of one kind a run has made
RunCallsOf(p, op) == {i \in 1..Len(rLog[p]) : rLog[p][i].op = op}

\* allocate_gh_workspace has resolved the reference and chosen a slot
SlotChosen(p) == rCtx[p] # NoCtx

\* allocate_gh_workspace has returned
Allocated(p) == SlotChosen(p) /\ rPc[p] # "claim"

\* C18: allocate_gh_workspace ends with exactly one claim of the chosen slot,
\* tagged 'gh-<ref>', with the process id and no change id, pinned exactly
\* when the release flag is false; the context's should_release equals the
\* release flag, so pinned and should_release are opposite.
C18_OneClaimPinnedUnlessReleased ==
    \A p \in Procs :
        /\ ~Allocated(p) => RunCallsOf(p, "claim_workspace") = {}
        /\ Allocated(p) =>
            /\ Cardinality(RunCallsOf(p, "claim_workspace")) = 1
            /\ \A i \in RunCallsOf(p, "claim_workspace") :
                   rLog[p][i].arg = rCtx[p].workspace_num
            /\ rClaim[p].called
            /\ rClaim[p].claim.project_file = rCtx[p].project_file
            /\ rClaim[p].claim.num = rCtx[p].workspace_num
            /\ rClaim[p].claim.workflow = S_gh \o rArgs[p].ref
            /\ rClaim[p].claim.pid = p
            /\ rClaim[p].claim.cl_name = None
            /\ rClaim[p].claim.pinned <=> ~rArgs[p].release
            /\ rCtx[p].should_release <=> rArgs[p].release
            /\ rClaim[p].claim.pinned <=> ~rCtx[p].should_release

\* an allocation with the release flag unset: the claim is pinned
C18_Witness ==
    \E p \in Procs :
        /\ Allocated(p)
        /\ ~rArgs[p].release
        /\ rClaim[p].claim.pinned
        /\ rClaim[p].claim \in reg

\* the claims of the registry other than those of process p
ClaimsOfOthers(p) == {c \in reg : c.pid # p}

\* C19: the slot is chosen by exactly one of three branches in priority
\* order: pre-allocated (the supplied number and directory verbatim, neither
\* first_available nor ensure_git_clone called, even with an explicit slot),
\* else explicit (that slot, first_available not called), else the registry's
\* first available slot; in the last two ensure_git_clone is called exactly
\* once for the chosen slot, before the claim.
C19_SlotSelectionPriority ==
    \A p \in Procs :
      /\ (rArgs[p] # NoArgs /\ rArgs[p].preAllocated) =>
            /\ RunCallsOf(p, "get_first_available_axe_workspace") = {}
            /\ RunCallsOf(p, "ensure_git_clone") = {}
            /\ ~SlotChosen(p) => RunCallsOf(p, "claim_workspace") = {}
      /\ SlotChosen(p) =>
        LET a == rArgs[p]
            ctx == rCtx[p]
            firsts == RunCallsOf(p, "get_first_available_axe_workspace")
            clones == RunCallsOf(p, "ensure_git_clone")
            claims == RunCallsOf(p, "claim_workspace")
        IN /\ a.preAllocated =>
                /\ a.envNum # {}
                /\ ParseInt(TextOf(a.envNum)) = {ctx.workspace_num}
                /\ a.envDir = {ctx.workspace_dir}
                /\ firsts = {}
                /\ clones = {}
           /\ ~a.preAllocated /\ a.n # {} =>
                /\ ctx.workspace_num \in a.n
                /\ firsts = {}
           /\ ~a.preAllocated /\ a.n = {} =>
                /\ Cardinality(firsts) = 1
                /\ \A i \in firsts : \A j \in clones : i < j
                /\ ctx.workspace_num =
                       FirstAvailable(ClaimsOfOthers(p), ctx.project_file)
           /\ ~a.preAllocated =>
                /\ Cardinality(clones) = 1
                /\ \A j \in clones :
                    /\ rLog[p][j].arg = ctx.workspace_num
                    /\ \A k \in claims : j < k
                /\ ctx.workspace_dir =
                       EnsureGitClone(ctx.primary_workspace_dir, ctx.workspace_num)

\* a pre-allocated run that was also given a different explicit slot, its
\* number supplied with whitespace around it
C19_Witness ==
    \E p \in Procs :
        /\ Allocated(p)
        /\ rArgs[p].preAllocated
        /\ rArgs[p].n # {}
        /\ rArgs[p].envNum = {<<Ch_VT, "7", Ch_NBSP>>}
        /\ rCtx[p].workspace_num = 7
        /\ rCtx[p].workspace_num \notin rArgs[p].n
        /\ rCtx[p].workspace_dir = EnvDir

\* C20 (as stated): post_agent never raises when reading the head or the
\* newest commit's subject fails or prints nothing; it returns a result whose
\* meta lacks meta_commit_message.
C20_PostAgentNeverRaises ==
    \A p \in Procs :
        (rPc[p] = "done" /\ rGit[p] # NoGit) =>
            /\ rOut[p].kind = "ok"
            /\ (\/ rGit[p].revParse \in {GitFailed, EMPTY}
                \/ StripWs(rGit[p].log) = EMPTY
                \/ rGit[p].log = GitFailed)
               => "meta_commit_message" \notin DOMAIN rOut[p].meta

(***************************************************************************)
(* pre_agent and post_agent: the release and the order of the steps        *)
(***************************************************************************)
\* C24: when post_agent releases the slot, the change id passed is
\* ctx.checkout_target if that target has no path separator and is absent
\* otherwise; the slot number and project file passed are those of ctx.
C24_ReleaseChangeId ==
    \A p \in Procs : \A i \in Releases(p) :
        /\ rLog[p][i].cl_name =
               IF Contains(rCtx[p].checkout_target, SEP) THEN None
               ELSE rCtx[p].checkout_target
        /\ rLog[p][i].arg = rCtx[p].workspace_num
        /\ rLog[p][i].project_file = rCtx[p].project_file

\* a release whose checkout target is a remote branch: no change id
C24_Witness ==
    \E p \in Procs : \E i \in Releases(p) :
        /\ Contains(rCtx[p].checkout_target, SEP)
        /\ rLog[p][i].cl_name = None

\* pre_agent has returned
PreAgentReturned(p) ==
    SlotChosen(p) /\ rPc[p] \in {"agent", "post", "done"}

\* the calls of pre_agent are in its order, each made once
PreAgentOrder(p) ==
    LET claims == RunCallsOf(p, "claim_workspace")
        prepares == RunCallsOf(p, "prepare_git_workspace")
        chdirs == RunCallsOf(p, "chdir")
    IN /\ \A j \in prepares : \E i \in claims : i < j
       /\ \A j \in prepares : rLog[p][j].arg = rCtx[p].workspace_dir
       /\ \A k \in chdirs : rLog[p][k].arg = rCtx[p].workspace_dir
       /\ \A k \in chdirs : \E j \in prepares : j < k
       /\ Cardinality(prepares) = Cardinality(chdirs)
       /\ Cardinality(prepares) = IF PreAgentReturned(p) THEN 1 ELSE 0
       /\ (SlotChosen(p) /\ ~PreAgentReturned(p)) => rCtx[p].head_before = EMPTY

\* head_before changes only in the step that prepares the workspace
HeadBeforeWrittenByPrepare(p) ==
    (SlotChosen(p) /\ rCtx'[p].head_before # rCtx[p].head_before) =>
        /\ rPc[p] = "prepare"
        /\ rPc'[p] = "agent"

\* C25: pre_agent resolves and claims the slot, then prepares the workspace,
\* stores the commit id in ctx.head_before, then changes the working directory
\* to ctx.workspace_dir; the workspace is never prepared before the claim was
\* issued; head_before is written once per run and post_agent leaves it alone.
C25_PreAgentOrder ==
    /\ [](\A p \in Procs : PreAgentOrder(p))
    /\ [][\A p \in Procs : HeadBeforeWrittenByPrepare(p)]_vars

\* a finished run whose recorded head is the one preparation returned
C25_Witness ==
    \E p \in Procs :
        /\ rPc[p] = "done"
        /\ rGit[p] # NoGit
        /\ rCtx[p].head_before # EMPTY
        /\ Cardinality(RunCallsOf(p, "prepare_git_workspace")) = 1

\* the reads post_agent makes of the workspace
WorkspaceReads(p) ==
    RunCallsOf(p, "capture_git_diff") \cup RunCallsOf(p, "rev-parse")
        \cup RunCallsOf(p, "log")

\* C26 (as stated): during post_agent the diff capture and the head and
\* commit-subject queries all happen before the slot is released.
C26_ReadsBeforeRelease ==
    \A p \in Procs : \A i \in Releases(p) : \A j \in WorkspaceReads(p) : j < i

(***************************************************************************)
(* ws_submit: the steps after the claim, and concurrent submissions        *)
(***************************************************************************)
\* the calls of one kind a submission has made
SubmitCallsOf(p, op) == {i \in 1..Len(sLog[p]) : sLog[p][i].op = op}

\* the steps of the body in the order the claim gives them
SubmitStepOrder ==
    <<"checkout", "get_default_branch", "gh pr view", "gh pr merge",
      "finalize_submission">>

\* every call of step a precedes every call of step b
StepPrecedes(p, a, b) ==
    \A i \in SubmitCallsOf(p, a) : \A j \in SubmitCallsOf(p, b) : i < j

\* step b was called only after step a had answered ans
StepOnlyAfter(p, b, a, ans) ==
    \A j \in SubmitCallsOf(p, b) :
        \E i \in SubmitCallsOf(p, a) : i < j /\ sLog[p][i].ans = ans

\* the body of the try statement has run
BodyEnded(p) == sClaim[p].made /\ sPc[p] \in {"cleanup", "done"}

\* C23: after a successful claim ws_submit runs checkout, default-branch
\* query, PR-existence check, merge, finalize in that order, each at most
\* once; a failed checkout stops before any PR query; the merge is attempted
\* only when a PR exists, otherwise the result is the failure that tells the
\* user to create a PR; finalization is invoked only after the merge tool
\* succeeded, and a merge failure returns the tool's error text unfinalized.
C23_SubmitStepOrder ==
    \A p \in Procs :
        /\ \A a \in 1..Len(SubmitStepOrder) :
            /\ Cardinality(SubmitCallsOf(p, SubmitStepOrder[a])) <= 1
            /\ StepPrecedes(p, "claim_workspace", SubmitStepOrder[a])
            /\ SubmitCallsOf(p, SubmitStepOrder[a]) # {} => sClaim[p].made
            /\ \A b \in 1..Len(SubmitStepOrder) :
                   a < b => StepPrecedes(p, SubmitStepOrder[a], SubmitStepOrder[b])
        /\ StepOnlyAfter(p, "get_default_branch", "checkout", "ok")
        /\ StepOnlyAfter(p, "gh pr view", "get_default_branch", "ok")
        /\ StepOnlyAfter(p, "gh pr merge", "gh pr view", "yes")
        /\ StepOnlyAfter(p, "finalize_submission", "gh pr merge", "ok")
        /\ BodyEnded(p) =>
            /\ \A i \in SubmitCallsOf(p, "checkout") :
                   sLog[p][i].ans = "fail" =>
                       /\ sOut[p] = Returned(FALSE, "checkout_failed")
                       /\ SubmitCallsOf(p, "gh pr view") = {}
            /\ \A i \in SubmitCallsOf(p, "gh pr view") :
                   sLog[p][i].ans = "no" =>
                       /\ sOut[p] = Returned(FALSE, "no_pr")
                       /\ SubmitCallsOf(p, "gh pr merge") = {}
            /\ \A i \in SubmitCallsOf(p, "gh pr merge") :
                   sLog[p][i].ans = "fail" =>
                       /\ sOut[p].kind = "returned"
                       /\ ~sOut[p].ok
                       /\ sOut[p].msg = "merge_failed"
                       /\ LET err == StripWs(sLog[p][i].stderr)
                              out == StripWs(sLog[p][i].stdout)
                          IN sOut[p].text =
                                 IF err # EMPTY THEN S_mergeFailed \o <<":", " ">> \o err
                                 ELSE IF out # EMPTY
                                      THEN S_mergeFailed \o <<":", " ">> \o out
                                 ELSE S_mergeFailed
                       /\ SubmitCallsOf(p, "finalize_submission") = {}

\* a submission whose merge failed with an error text
C23_Witness ==
    \E p \in Procs :
        /\ sPc[p] = "done"
        /\ \E i \in SubmitCallsOf(p, "gh pr merge") : sLog[p][i].ans = "fail"
        /\ sOut[p].kind = "returned"
        /\ sOut[p].text = S_mergeFailed \o <<":", " ", "e">>
        /\ SubmitReleases(p) # {}

\* the submission holds a slot: claimed and not yet released
HoldsSlot(p) == sClaim[p].made /\ sPc[p] \in {"try", "cleanup"}

\* the claim of the submission was refused
ClaimRefused(p) == sOut[p] = Returned(FALSE, "claim_failed")

\* C28: of two concurrent ws_submit invocations that selected the same
\* first-available slot at most one claims it; the one whose claim fails
\* returns the 'Failed to claim workspace' failure without checking out,
\* querying or merging and without calling release, so the slot stays with
\* the other invocation.
C28_RefusedSubmitTouchesNothing ==
    /\ \A p, q \in Procs :
           (p # q /\ HoldsSlot(p) /\ HoldsSlot(q)) =>
               sClaim[p].claim.num # sClaim[q].claim.num
    /\ \A p \in Procs : HoldsSlot(p) => sClaim[p].claim \in reg
    /\ \A p \in Procs : ClaimRefused(p) =>
           /\ sPc[p] = "done"
           /\ ~sClaim[p].made
           /\ Len(sLog[p]) = 2
           /\ sLog[p][1].op = "get_first_available_axe_workspace"
           /\ sLog[p][2].op = "claim_workspace"
           /\ sLog[p][2].arg = sNum[p]

\* two submissions selected the same slot; one holds it, the other was refused
C28_Witness ==
    \E p, q \in Procs :
        /\ p # q
        /\ sNum[p] = sNum[q]
        /\ HoldsSlot(p)
        /\ ClaimRefused(q)

(***************************************************************************)
(* vcs_classify_repo                                                       *)
(***************************************************************************)
\* C22: vcs_classify_repo returns the tag 'github' if and only if the
\* origin-URL query completes with exit status 0 and its output contains
\* 'github.com'; on timeout, missing tool, OS error or non-zero exit it
\* returns absent; the query is run once and nothing is raised.
C22_ClassifyIffGithubUrl ==
    qRes.fn = "vcs_classify_repo" =>
        /\ qRes.res \in {{}, {"github"}}
        /\ qRes.res = {"github"} <=>
               /\ qRes.tool.how = "completed"
               /\ qRes.tool.returncode = 0
               /\ HasSubstring(qRes.tool.stdout, S_githubCom)
        /\ Len(qRes.calls) = 1

\* a probe whose query exited non-zero although it printed a github URL
C22_Witness ==
    /\ qRes.fn = "vcs_classify_repo"
    /\ qRes.tool.how = "completed"
    /\ qRes.tool.returncode # 0
    /\ HasSubstring(qRes.tool.stdout, S_githubCom)
    /\ qRes.res = {}

(***************************************************************************)
(* The key=value scripts: the keys printed                                 *)
(***************************************************************************)
\* the keys of a printed key sequence, as a set
KeySet(keys) == {keys[i] : i \in 1..Len(keys)}

\* C21 (as stated): each key=value script prints the same set of keys on
\* every exit path, one key per line even when the value is empty, whether it
\* succeeded or not and whichever error path it took.
C21_FixedKeySet ==
    \A s \in Scripts : \A k1, k2 \in kvSeen[s] : KeySet(k1) = KeySet(k2)

(***************************************************************************)
(* Concurrent repository-path resolutions                                  *)
(***************************************************************************)
\* the directory a concurrent resolution derives from its reference
ConcDerived(p) ==
    LET parts == RepoPathParts(cRef[p])
    IN NormPath(PrimaryWorkspaceDir(parts[1], parts[2]))

\* C27 (as stated): of two concurrent repository-path resolutions that share
\* the project and derive different directories, with nothing recorded at
\* the start, at most one persists its directory and the other fails with a
\* conflict.
C27_AtMostOnePersists ==
    \A p, q \in Procs :
        (/\ p # q
         /\ cPc[p] = "done"
         /\ cPc[q] = "done"
         /\ ValidRepoPath(cRef[p])
         /\ ValidRepoPath(cRef[q])
         /\ ConcDerived(p) # ConcDerived(q))
        => ~(cOut[p].kind = "ok" /\ cOut[q].kind = "ok")

====
